---------------------------- MODULE Spec2Model ----------------------------
(***************************************************************************)
(* A model of backend/pdf_parser.py, the statement parser of               *)
(* Mastercardtrack, and of the part of upload_statement in backend/main.py *)
(* that stores a parsed statement.                                         *)
(*                                                                         *)
(* Text is modelled by TLA+ strings (sequences of characters); Python's    *)
(* str methods and the regular expressions of the source are operators on  *)
(* them, restricted to ASCII.  A Python float is modelled by the decimal   *)
(* number its literal denotes, m * 10^x, or by inf / nan; -0.0 and 0.0     *)
(* are one value, as they are equal in Python.  A sum or a difference of   *)
(* floats that is no decimal literal's float is modelled by its bits.      *)
(***************************************************************************)
EXTENDS Integers, Sequences, FiniteSets, TLC

VARIABLES
    amt_text,      \* parse_amount: the argument
    amt_result,    \* parse_amount: the value returned, NotCalled before the call
    date_text,     \* parse_date: the argument
    date_result,   \* parse_date: the value returned, NotCalled before the call
    line_text,     \* parse_transaction_line: the argument
    line_result,   \* parse_transaction_line: the value returned, NotCalled before
    pdf_pages,     \* parse_mastercard_pdf: what extract_text() gives for each page
    pdf_open,      \* the document handle is open
    pc,            \* parse_mastercard_pdf: where the call stands
    page_num,      \* the pages read so far
    full_text,
    header,        \* the values read from the first page
    lines,         \* the lines still to scan
    transactions,
    tx_lines,      \* history: the line each element of transactions came from
    result,        \* the StatementData returned, NotCalled before
    db_statement,  \* upload_statement: the Statement row added, NoRow before
    db_transactions, \* upload_statement: the Transaction rows added, in order
    up_i,          \* upload_statement: the parsed transactions handled so far
    tmp_exists,    \* upload_statement: the temporary file of the upload exists
    categories_table,   \* the rows of models.Category
    transactions_table, \* the rows of models.Transaction
    statements_table,   \* the rows of models.Statement
    current_user   \* the user of the last request, 0 before the first

func_vars == <<amt_text, amt_result, date_text, date_result, line_text, line_result>>
pdf_vars ==
    <<pdf_pages, pdf_open, pc, page_num, full_text, header, lines, transactions, tx_lines,
      result>>
api_vars == <<categories_table, transactions_table, statements_table, current_user>>
upload_vars == <<db_statement, db_transactions, up_i, tmp_exists, api_vars>>
vars == <<func_vars, pdf_vars, upload_vars>>

\* the value a result variable holds before its function has been called
NotCalled == [k |-> "not called"]
\* the statement row before upload_statement has added one
NoRow == [k |-> "no row"]

-----------------------------------------------------------------------------
(* Bounds of the inputs the model draws.                                   *)

MaxTokLen == 3      \* free-form amount tokens: every string up to this length
MaxIntDigits == 2   \* digits of the integer part of a shaped amount token
MaxDay == 32        \* date texts: every day number from 0 to this
MaxWords == 3       \* transaction lines: words after the date
MaxItems == 3       \* documents: text blocks and page breaks
MaxCategories == 2    \* requests: the largest id of a category
MaxTransactions == 1  \* requests: the largest id of a transaction
MaxStatements == 1    \* requests: the largest id of a statement
MaxPageLines == 3   \* statements: lines of the page drawn
FracChunks == 10    \* binary places of a decimal fraction, in groups of eight

-----------------------------------------------------------------------------
(* Python str                                                              *)

\* s[i-1] of Python, 1-based; "" outside the string
Ch(s, i) == IF i >= 1 /\ i <= Len(s) THEN SubSeq(s, i, i) ELSE ""

Min(a, b) == IF a < b THEN a ELSE b
Max(a, b) == IF a > b THEN a ELSE b

\* s[i-1:j] of Python, 1-based and inclusive, clipped to the string.
Sub(s, i, j) ==
    IF i > j \/ i > Len(s) \/ j < 1 THEN ""
    ELSE SubSeq(s, Max(i, 1), Min(j, Len(s)))

From(s, i) == Sub(s, i, Len(s))

DigitChars == "0123456789"
LowerAlpha == "abcdefghijklmnopqrstuvwxyz"
UpperAlpha == "ABCDEFGHIJKLMNOPQRSTUVWXYZ"

DigitSet == {Ch(DigitChars, i) : i \in 1..10}
LowerSet == {Ch(LowerAlpha, i) : i \in 1..26}
UpperSet == {Ch(UpperAlpha, i) : i \in 1..26}
SpaceSet == {" ", "\t", "\n", "\r", "\f"}

IsDigit(c) == c \in DigitSet
DigitVal(c) == (CHOOSE i \in 1..10 : Ch(DigitChars, i) = c) - 1
IsLowerCh(c) == c \in LowerSet
IsUpperCh(c) == c \in UpperSet
IsAlpha(c) == IsLowerCh(c) \/ IsUpperCh(c)
IsSpace(c) == c \in SpaceSet

\* the lower-case letter of every upper-case letter, and the reverse
LowerOf == [c \in UpperSet |-> Ch(LowerAlpha, CHOOSE i \in 1..26 : Ch(UpperAlpha, i) = c)]
UpperOf == [c \in LowerSet |-> Ch(UpperAlpha, CHOOSE i \in 1..26 : Ch(LowerAlpha, i) = c)]

LowerCh(c) == IF IsUpperCh(c) THEN LowerOf[c] ELSE c
UpperCh(c) == IF IsLowerCh(c) THEN UpperOf[c] ELSE c

\* str.lower() and str.upper(), character by character (by halves)
RECURSIVE LowerStr(_)
LowerStr(s) ==
    IF Len(s) <= 1 THEN LowerCh(s)
    ELSE LowerStr(Sub(s, 1, Len(s) \div 2)) \o LowerStr(From(s, Len(s) \div 2 + 1))

RECURSIVE UpperStr(_)
UpperStr(s) ==
    IF Len(s) <= 1 THEN UpperCh(s)
    ELSE UpperStr(Sub(s, 1, Len(s) \div 2)) \o UpperStr(From(s, Len(s) \div 2 + 1))

RECURSIVE LStrip(_)
LStrip(s) == IF s # "" /\ IsSpace(Ch(s, 1)) THEN LStrip(Tail(s)) ELSE s

RECURSIVE RStrip(_)
RStrip(s) ==
    IF s # "" /\ IsSpace(Ch(s, Len(s))) THEN RStrip(Sub(s, 1, Len(s) - 1)) ELSE s

\* str.strip()
StripStr(s) == RStrip(LStrip(s))

\* str.replace(c, r) for a one-character c
RECURSIVE ReplaceCh(_, _, _)
ReplaceCh(s, c, r) ==
    IF s = "" THEN ""
    ELSE (IF Ch(s, 1) = c THEN r ELSE Ch(s, 1)) \o ReplaceCh(Tail(s), c, r)

StartsWith(s, p) == Len(p) <= Len(s) /\ Sub(s, 1, Len(p)) = p
EndsWith(s, p) == Len(p) <= Len(s) /\ From(s, Len(s) - Len(p) + 1) = p

\* s.startswith(p, i-1)
MatchAt(s, i, p) ==
    /\ i >= 1
    /\ i + Len(p) - 1 <= Len(s)
    /\ Ch(s, i) = Ch(p, 1)
    /\ Sub(s, i, i + Len(p) - 1) = p

\* the positions of s where p occurs
Occurrences(s, p) == {i \in 1..Len(s) : MatchAt(s, i, p)}

SetMin(S) == CHOOSE i \in S : \A j \in S : i <= j
SetMax(S) == CHOOSE i \in S : \A j \in S : i >= j

\* s.find(p) and s.rfind(p) of a non-empty p, 1-based; 0 when p does not occur
MinOrZero(S) == IF S = {} THEN 0 ELSE SetMin(S)
MaxOrZero(S) == IF S = {} THEN 0 ELSE SetMax(S)
Find(s, p) == MinOrZero(Occurrences(s, p))
RFind(s, p) == MaxOrZero(Occurrences(s, p))

\* p in s
Contains(s, p) == p = "" \/ \E i \in 1..Len(s) : MatchAt(s, i, p)

\* the number of digits of s from position i on (the greedy \d* of a regex)
RECURSIVE DigitRun(_, _)
DigitRun(s, i) ==
    IF i >= 1 /\ i <= Len(s) /\ IsDigit(Ch(s, i)) THEN 1 + DigitRun(s, i + 1) ELSE 0

\* int(s) of a digit string
RECURSIVE DigitsValue(_)
DigitsValue(s) ==
    IF s = "" THEN 0
    ELSE 10 * DigitsValue(Sub(s, 1, Len(s) - 1)) + DigitVal(Ch(s, Len(s)))

-----------------------------------------------------------------------------
(* Python float: m * 10^x with m not a multiple of 10 (0 is m = 0, x = 0), *)
(* or inf (m its sign) or nan.                                             *)

RECURSIVE Normalize(_, _)
Normalize(m, x) ==
    IF m = 0 THEN [k |-> "fin", m |-> 0, x |-> 0]
    ELSE IF m % 10 = 0 THEN Normalize(m \div 10, x + 1)
    ELSE [k |-> "fin", m |-> m, x |-> x]

Zero == Normalize(0, 0)
Inf == [k |-> "inf", m |-> 1, x |-> 0]
NaN == [k |-> "nan", m |-> 0, x |-> 0]

\* -value
Neg(v) == [v EXCEPT !.m = 0 - v.m]

IsNegative(v) == v.k # "nan" /\ v.m < 0
IsPositive(v) == v.k # "nan" /\ v.m > 0
\* value == 0.0, and the truth value Python gives a float
IsZero(v) == v.k = "fin" /\ v.m = 0
Truthy(v) == ~IsZero(v)

RECURSIVE Pow10(_)
Pow10(n) == IF n <= 0 THEN 1 ELSE 10 * Pow10(n - 1)

\* float(text): [ok |-> FALSE] stands for ValueError.
ValueError == [ok |-> FALSE, v |-> Zero]

\* an underscore is allowed between two digits only
UnderscoresOk(s) ==
    \A i \in 1..Len(s) :
        Ch(s, i) = "_" => (IsDigit(Ch(s, i - 1)) /\ IsDigit(Ch(s, i + 1)))

SkipDigits(s, i) == i + DigitRun(s, i)
SkipChar(s, i, chars) == IF Ch(s, i) # "" /\ Ch(s, i) \in chars THEN i + 1 ELSE i

\* digits [. digits] [e [sign] digits] from position b of s: int is the end
\* of the integer part, frac that of the fraction, e the position after the
\* exponent letter, x that of the first exponent digit
DecimalValue(s, b, sign, int, frac, e, x) ==
    IF /\ (int - b) + (frac - SkipChar(s, int, {"."})) > 0
       /\ (e > frac => SkipDigits(s, x) > x)
       /\ (IF e > frac THEN SkipDigits(s, x) ELSE frac) = Len(s) + 1
    THEN [ok |-> TRUE,
          v |-> Normalize(
                    sign * DigitsValue(Sub(s, b, int - 1) \o Sub(s, int + 1, frac - 1)),
                    (IF e > frac
                     THEN (IF Ch(s, e) = "-" THEN 0 - 1 ELSE 1) * DigitsValue(From(s, x))
                     ELSE 0) - (frac - SkipChar(s, int, {"."})))]
    ELSE ValueError

DecimalExponent(s, b, sign, int, frac, e) ==
    DecimalValue(s, b, sign, int, frac, e, SkipChar(s, e, {"+", "-"}))
DecimalFraction(s, b, sign, int, frac) ==
    DecimalExponent(s, b, sign, int, frac, SkipChar(s, frac, {"e", "E"}))
DecimalInteger(s, b, sign, int) ==
    DecimalFraction(s, b, sign, int, SkipDigits(s, SkipChar(s, int, {"."})))

\* the text after the sign
FloatBody(s, b, sign, word) ==
    IF word \in {"inf", "infinity"} THEN [ok |-> TRUE, v |-> [Inf EXCEPT !.m = sign]]
    ELSE IF word = "nan" THEN [ok |-> TRUE, v |-> NaN]
    ELSE DecimalInteger(s, b, sign, SkipDigits(s, b))

FloatSigned(s, b) ==
    FloatBody(s, b, IF Ch(s, 1) = "-" THEN 0 - 1 ELSE 1, LowerStr(From(s, b)))

FloatStripped(s0) ==
    IF UnderscoresOk(s0)
    THEN FloatSigned(ReplaceCh(s0, "_", ""), SkipChar(ReplaceCh(s0, "_", ""), 1, {"+", "-"}))
    ELSE ValueError

PyFloat(text) == FloatStripped(StripStr(text))

-----------------------------------------------------------------------------
(* parse_amount                                                            *)

\* text.replace('(', '').replace(')', '').replace('-', '').strip()
RemoveSigns(text) == StripStr(ReplaceCh(ReplaceCh(ReplaceCh(text, "(", ""), ")", ""), "-", ""))

\* Argentine format: 1.234,56 -> 1234.56
CommaOnlyToPoint(text) == ReplaceCh(text, ",", ".")
ToPointDecimal(text) ==
    IF Contains(text, ",") /\ Contains(text, ".")
    THEN ReplaceCh(ReplaceCh(text, ".", ""), ",", ".")
    ELSE IF Contains(text, ",") THEN ReplaceCh(text, ",", ".")
    ELSE text

\* text.startswith('-') or text.startswith('(')
StartsWithMinusOnly(text) == StartsWith(text, "-")
StartsNegative(text) == StartsWith(text, "-") \/ StartsWith(text, "(")

\* -value if is_negative else value; 0.0 on ValueError
SignedValue(f, is_negative) ==
    IF f.ok THEN (IF is_negative THEN Neg(f.v) ELSE f.v) ELSE Zero

AmountOfStripped(text) ==
    SignedValue(PyFloat(ToPointDecimal(RemoveSigns(text))), StartsNegative(text))

parse_amount(text) ==
    IF text = "" \/ StripStr(text) = "" THEN Zero ELSE AmountOfStripped(StripStr(text))

-----------------------------------------------------------------------------
(* The tokens parse_amount is called with.                                 *)

AmountAlphabet == {"0", "1", ",", ".", "-", "(", ")", "e", "i", "n", "f", "a", " ", "+"}
ShapeDigits == {"0", "2", "5"}

RECURSIVE StringsOfLen(_, _)
StringsOfLen(alphabet, n) ==
    IF n = 0 THEN {""}
    ELSE {c \o s : c \in alphabet, s \in StringsOfLen(alphabet, n - 1)}

StringsUpTo(alphabet, n) == UNION {StringsOfLen(alphabet, k) : k \in 0..n}

IntParts == StringsUpTo(ShapeDigits, MaxIntDigits) \ {""}
\* I,FF
PlainBodies == {i \o "," \o f : i \in IntParts, f \in StringsOfLen(ShapeDigits, 2)}
\* T.HHH,FF
ThousandBodies ==
    {t \o "." \o h \o "," \o f :
        t \in IntParts, h \in StringsOfLen(ShapeDigits, 3), f \in StringsOfLen(ShapeDigits, 2)}
SignedTokens ==
    UNION {{b, "-" \o b, "(" \o b \o ")", "-(" \o b \o ")", "(-" \o b \o ")", "(" \o b, b \o ")"} :
              b \in PlainBodies}
ExampleTokens ==
    {"1.234,56", "123,45", "(500,00)", "-500,00", "abc", "inf", "nan", "1e5",
     "3051644,80", "1_0", "1,234.5", "Infinity"}

AmountTokens ==
    StringsUpTo(AmountAlphabet, MaxTokLen) \cup SignedTokens \cup ThousandBodies
        \cup ExampleTokens

-----------------------------------------------------------------------------
(* parse_date                                                              *)

\* datetime(year, month, day) and None
Date(y, mo, d) == [k |-> "date", y |-> y, mo |-> mo, d |-> d]
NoDate == [k |-> "None", y |-> 0, mo |-> 0, d |-> 0]

\* months.get(month_str, 1)
MonthsGet(month_str) ==
    CASE month_str = "ene" -> 1  [] month_str = "feb" -> 2  [] month_str = "mar" -> 3
      [] month_str = "abr" -> 4  [] month_str = "may" -> 5  [] month_str = "jun" -> 6
      [] month_str = "jul" -> 7  [] month_str = "ago" -> 8  [] month_str = "sep" -> 9
      [] month_str = "oct" -> 10 [] month_str = "nov" -> 11 [] month_str = "dic" -> 12
      [] OTHER -> 1

\* the days of a month, as the datetime constructor checks them
DaysInMonth(y, mo) ==
    IF mo = 2
    THEN (IF y % 4 = 0 /\ (y % 100 # 0 \/ y % 400 = 0) THEN 29 ELSE 28)
    ELSE IF mo \in {4, 6, 9, 11} THEN 30 ELSE 31

\* datetime(year, month, day) raises ValueError outside the calendar
DatetimeOk(y, mo, d) == y \in 1..9999 /\ mo \in 1..12 /\ d >= 1 /\ d <= DaysInMonth(y, mo)

\* re.match(r'(\d{1,2})-([A-Za-z]{3})-(\d{2})', s): the three groups and the
\* end of the match, when the pattern matches at the start of s; n is the
\* number of digits s starts with
DateGroups(s, n) ==
    [ok |-> /\ n \in {1, 2}
            /\ Ch(s, n + 1) = "-"
            /\ IsAlpha(Ch(s, n + 2)) /\ IsAlpha(Ch(s, n + 3)) /\ IsAlpha(Ch(s, n + 4))
            /\ Ch(s, n + 5) = "-"
            /\ IsDigit(Ch(s, n + 6)) /\ IsDigit(Ch(s, n + 7)),
     g1 |-> Sub(s, 1, n),
     g2 |-> Sub(s, n + 2, n + 4),
     g3 |-> Sub(s, n + 6, n + 7),
     end |-> n + 7]

DateMatch(s) == DateGroups(s, DigitRun(s, 1))

\* return datetime(year, month, day); None when it raises
MakeDate(year, month, day) ==
    IF DatetimeOk(year, month, day) THEN Date(year, month, day) ELSE NoDate

\* month_str = match.group(2).lower()
MonthStrAsWritten(group) == group
MonthStr(group) == LowerStr(group)

DateOfMatch(match) ==
    IF match.ok
    THEN MakeDate(DigitsValue(match.g3) + 2000, MonthsGet(MonthStr(match.g2)),
                  DigitsValue(match.g1))
    ELSE NoDate

parse_date(text) == DateOfMatch(DateMatch(StripStr(text)))

-----------------------------------------------------------------------------
(* The texts parse_date is called with.                                    *)

MonthNames == <<"ene", "feb", "mar", "abr", "may", "jun", "jul", "ago", "sep", "oct", "nov", "dic">>

\* str(n) of a number below 100, and its two-digit form
DigitStr(n) == Ch(DigitChars, n + 1)
NumStr(n) == IF n < 10 THEN DigitStr(n) ELSE DigitStr(n \div 10) \o DigitStr(n % 10)
NumStr2(n) == DigitStr(n \div 10) \o DigitStr(n % 10)

Capitalize(s) == UpperCh(Ch(s, 1)) \o From(s, 2)
Swapcase(s) == LowerCh(Ch(s, 1)) \o UpperStr(From(s, 2))

DayTexts == {NumStr(d) : d \in 0..MaxDay} \cup {NumStr2(d) : d \in 0..9}
MonthTexts ==
    UNION {{MonthNames[i], Capitalize(MonthNames[i]), UpperStr(MonthNames[i]),
            Swapcase(MonthNames[i])} : i \in 1..12}
        \cup {"Xyz", "Aug", "jan", "DEC"}
YearNumbers == {0, 1, 4, 24, 25, 26, 96, 99}
YearTexts == {NumStr2(y) : y \in YearNumbers}

MalformedDates ==
    {"", "bad-date", "26-Nov-25x", "26-Nov-2025", "126-Nov-25", "26/Nov/25", "26-Nove-25",
     "26-No-25", " 26-Nov-25 ", "26-Nov-5", "-Nov-25", "2a-Nov-25", "26-N0v-25", "26 Nov 25"}

DateTexts ==
    {d \o "-" \o m \o "-" \o y : d \in DayTexts, m \in MonthTexts, y \in YearTexts}
        \cup MalformedDates

-----------------------------------------------------------------------------
(* is_subtotal_row and parse_transaction_line                              *)

skip_patterns ==
    <<"total titular", "total adicional", "saldo actual", "pago minimo", "detalle del mes",
      "su pago", "transfer financ">>

\* text_lower = text.lower()
TextAsWritten(text) == text
TextLower(text) == LowerStr(text)

SubtotalIn(text_lower) ==
    \E i \in 1..Len(skip_patterns) : Contains(text_lower, skip_patterns[i])
is_subtotal_row(text) == SubtotalIn(TextLower(text))

\* the number of whitespace characters of s from position i on
RECURSIVE SpaceRun(_, _)
SpaceRun(s, i) == IF IsSpace(Ch(s, i)) THEN 1 + SpaceRun(s, i + 1) ELSE 0

SkipSpaces(s, i) == i + SpaceRun(s, i)

\* the groups with \s* in the place of \s+
LineGroupsNoSpace(s, d, rest) ==
    [ok |-> d.ok /\ rest <= Len(s), g1 |-> Sub(s, 1, d.end), g2 |-> From(s, rest)]

\* re.match(r'^(\d{1,2}-[A-Za-z]{3}-\d{2})\s+(.+)', s): the two groups; d is
\* the match of the date and rest the position after the whitespace
LineGroups(s, d, rest) ==
    [ok |-> d.ok /\ rest > d.end + 1 /\ rest <= Len(s),
     g1 |-> Sub(s, 1, d.end),
     g2 |-> From(s, rest)]

LineMatchAfter(s, d) == LineGroups(s, d, SkipSpaces(s, d.end + 1))
LineMatch(s) == LineMatchAfter(s, DateMatch(s))

\* the end of the match of [\d]+[.,][\d]+ at position b of s, b for none;
\* sep is the position after the first digits
NumberEndAfter(s, b, sep) ==
    IF sep > b /\ Ch(s, sep) # "" /\ Ch(s, sep) \in {".", ","} /\ IsDigit(Ch(s, sep + 1))
    THEN SkipDigits(s, sep + 1)
    ELSE b
NumberEnd(s, b) == NumberEndAfter(s, b, SkipDigits(s, b))

\* the length of the match of -?[\d]+[.,][\d]+ at position i of s, 0 for none
NumberLenFrom(i, b, end) == IF end > b THEN end - i ELSE 0
NumberMatchLen(s, i) ==
    NumberLenFrom(i, SkipChar(s, i, {"-"}), NumberEnd(s, SkipChar(s, i, {"-"})))

\* re.findall(r'-?[\d]+[.,][\d]+', s) from position i on: the matches, left
\* to right, none overlapping another; n is the length of the match at i
RECURSIVE FindNumbers(_, _)
FindNumbersStep(s, i, n) ==
    IF n > 0
    THEN <<Sub(s, i, i + n - 1)>> \o FindNumbers(s, i + n)
    ELSE FindNumbers(s, i + 1)
FindNumbers(s, i) ==
    IF i > Len(s) THEN <<>> ELSE FindNumbersStep(s, i, NumberMatchLen(s, i))

\* the text that re.escape(amount_str.replace('.', r'\.').replace(',', r'\,'))
\* matches: amount_str with a backslash before each period and comma
EscapedTwice(amount_str) == ReplaceCh(ReplaceCh(amount_str, ".", "\\."), ",", "\\,")

\* r'\s(\d{5})\s+' followed by the literal text lit, matched at position i
CouponMatchAt(s, i, lit) ==
    /\ IsSpace(Ch(s, i))
    /\ \A j \in (i + 1)..(i + 5) : IsDigit(Ch(s, j))
    /\ \E w \in 1..SpaceRun(s, i + 6) : MatchAt(s, i + 6 + w, lit)

\* re.search of that pattern: group 1 of the leftmost match, "" for no match
CouponAt(s, i) == IF i = 0 THEN "" ELSE Sub(s, i + 1, i + 5)
CouponSearch(s, lit) == CouponAt(s, MinOrZero({i \in 1..Len(s) : CouponMatchAt(s, i, lit)}))

\* re.sub(r'\s+', ' ', s)
RECURSIVE CollapseSpaces(_)
CollapseSpaces(s) ==
    IF s = "" THEN ""
    ELSE IF IsSpace(Ch(s, 1)) THEN " " \o CollapseSpaces(From(s, 1 + SpaceRun(s, 1)))
    ELSE Ch(s, 1) \o CollapseSpaces(Tail(s))

\* re.sub(r'\s+\d{5}$', '', s)
DropTrailingCoupon(s) ==
    IF Len(s) >= 6 /\ DigitRun(s, Len(s) - 4) = 5 /\ IsSpace(Ch(s, Len(s) - 5))
    THEN RStrip(Sub(s, 1, Len(s) - 5))
    ELSE s

NoTransaction == [k |-> "None"]

Transaction(date, merchant, coupon_number, amount_pesos, amount_dollars, is_dollar) ==
    [k |-> "Transaction", date |-> date, merchant |-> merchant,
     coupon_number |-> coupon_number, amount_pesos |-> amount_pesos,
     amount_dollars |-> amount_dollars, is_dollar |-> is_dollar]

\* amount_str = numbers[-1]
FirstNumber(numbers) == numbers[1]
LastNumber(numbers) == numbers[Len(numbers)]

\* the amount in both columns, and in the column of the other type
BuildTransactionBothColumns(date, merchant, coupon, amount, is_dollar) ==
    Transaction(date, merchant, coupon, amount, amount, is_dollar)
BuildTransactionSwapped(date, merchant, coupon, amount, is_dollar) ==
    IF is_dollar
    THEN Transaction(date, merchant, coupon, amount, Zero, TRUE)
    ELSE Transaction(date, merchant, coupon, Zero, amount, FALSE)

\* the amount goes to the column of the transaction type, 0.0 to the other
BuildTransaction(date, merchant, coupon, amount, is_dollar) ==
    IF is_dollar
    THEN Transaction(date, merchant, coupon, Zero, amount, TRUE)
    ELSE Transaction(date, merchant, coupon, amount, Zero, FALSE)

\* everything before the coupon, or before the last number
MerchantText(rest, amount_str, coupon) ==
    IF coupon # ""
    THEN StripStr(Sub(rest, 1, Find(rest, coupon) - 1))
    ELSE StripStr(Sub(rest, 1, RFind(rest, amount_str) - 1))

\* the merchant name cleaned up, and a trailing coupon number removed
CleanMerchant(merchant) == DropTrailingCoupon(StripStr(CollapseSpaces(merchant)))

\* 'USA,' in rest
IsDollarExactCase(rest) == Contains(rest, "USA,")

\* is_dollar = 'USA,' in rest.upper()
IsDollar(rest) == Contains(UpperStr(rest), "USA,")

\* the steps of parse_transaction_line, each with the values found so far
LineWithCoupon(date, rest, amount_str, coupon) ==
    BuildTransaction(date, CleanMerchant(MerchantText(rest, amount_str, coupon)), coupon,
                     parse_amount(amount_str), IsDollar(rest))

LineWithAmount(date, rest, amount_str) ==
    LineWithCoupon(date, rest, amount_str, CouponSearch(rest, EscapedTwice(amount_str)))

LineWithNumbers(date, rest, numbers) ==
    IF numbers = <<>> THEN NoTransaction ELSE LineWithAmount(date, rest, LastNumber(numbers))

LineWithDate(date, rest) ==
    IF date = NoDate THEN NoTransaction ELSE LineWithNumbers(date, rest, FindNumbers(rest, 1))

LineWithMatch(date_match) ==
    IF ~date_match.ok THEN NoTransaction
    ELSE LineWithDate(parse_date(date_match.g1), StripStr(date_match.g2))

parse_transaction_line(line) ==
    IF is_subtotal_row(line) THEN NoTransaction ELSE LineWithMatch(LineMatch(StripStr(line)))

-----------------------------------------------------------------------------
(* The lines parse_transaction_line is called with: a date prefix and up   *)
(* to MaxWords words, the lines of the source's docstring and of the      *)
(* statement format, and lines around each subtotal fragment.              *)

LineDates == {"26-Nov-25", "31-Feb-25", "7-xyz-25", "26-Nov-2025", "Nov-26"}
LineWords ==
    {"NETFLIX.COM", "00779", "1500,00", "0,00", "1.234,56", "(USA,ARS, 600,00)",
     "Saldo Actual", "1500\\,00"}

RECURSIVE WordSeqs(_)
WordSeqs(n) ==
    IF n = 0 THEN {""}
    ELSE {w \o " " \o r : w \in LineWords, r \in WordSeqs(n - 1)}

WordLines ==
    UNION {{"26-Nov-25 " \o StripStr(b) : b \in WordSeqs(n)} : n \in 0..MaxWords}

DatedLines ==
    {d \o sep \o b : d \in LineDates, sep \in {" ", ""},
                     b \in {"NETFLIX.COM 00779 1500,00", "(USA,ARS, 600,00) 0,00", "NETFLIX.COM"}}

SubtotalLines ==
    UNION {{"26-Nov-25 " \o f \o " 1500,00",
            "26-Nov-25 X " \o UpperStr(f) \o " 00779 0,41",
            " 26-Nov-25 (USA,ARS, 600,00) x" \o Capitalize(f) \o "x 00761 0,41",
            UpperStr(f) \o " $ 1500,00 U$S 0,00"} :
              f \in {skip_patterns[i] : i \in 1..Len(skip_patterns)}}

ExampleLines ==
    {"26-Nov-25 GOOGLE *YouTube (USA,ARS, 600,00) 00761 0,41",
     "30-Nov-25 PUPPIS 02842 46500,00",
     "13-Dic-25 NETFLIX.COM (USA,ARS, 25398,00) 00779 17,63",
     "26-Nov-25 NETFLIX.COM 00779 1500,00",
     "  26-Nov-25 \t NETFLIX.COM   00779 \t 1500,00  ",
     "26-Nov-25 NETFLIX  COM 12345 00779 -1500,00",
     "26-Nov-25 Compra usa, 00779 2,50",
     "26-Nov-25 NETFLIX.COM 00779 1500\\,00 1500,00",
     "26-Nov-25 NETFLIX.COM 00779",
     "26-Nov-25 1500,00",
     "26-Nov-25",
     "26-Nov-2025 NETFLIX.COM 00779 1500,00",
     "NETFLIX.COM 26-Nov-25 00779 1500,00",
     "Pagina 1 de 3",
     ""}

LineTexts == WordLines \cup DatedLines \cup SubtotalLines \cup ExampleLines

-----------------------------------------------------------------------------
(* float arithmetic on the decimal values                                  *)

\* the decimal a + b of two decimals
AddAt(a, b, x) == Normalize(a.m * Pow10(a.x - x) + b.m * Pow10(b.x - x), x)

(* binary64 arithmetic. A float is the set of the exponents of the one     *)
(* bits of its magnitude: 0.75 is {-1, -2}. Addition and subtraction are   *)
(* exact on the sets and then rounded to 53 significant bits, half to even.*)

Pow2 == [p \in 0..30 |-> 2^p]

\* the bits of a natural number below 2^31
IntBits(n) == {p \in 0..30 : (n \div Pow2[p]) % 2 = 1}

\* the bits of the t-th group of eight binary places after the point
ChunkBits(c, t) == {p - 8 * t : p \in {q \in 0..7 : (c \div Pow2[q]) % 2 = 1}}

\* r / d, 0 <= r < d, to 8 * FracChunks binary places; one bit below them
\* stands for a remainder that is not zero
RECURSIVE FracBits(_, _, _)
FracBits(r, d, t) ==
    IF r = 0 THEN {}
    ELSE IF t > FracChunks THEN {0 - 8 * FracChunks - 1}
    ELSE ChunkBits((256 * r) \div d, t) \cup FracBits((256 * r) % d, d, t + 1)

\* m * 10^x, m >= 0
DecimalBits(m, x) ==
    IF x >= 0 THEN IntBits(m * Pow10(x))
    ELSE IntBits(m \div Pow10(0 - x)) \cup FracBits(m % Pow10(0 - x), Pow10(0 - x), 1)

Xor3(a, b, c) == (a # b) # c

\* the carry into place p of A + B; G is the set of places that generate one
CarryInto(A, B, G, p) ==
    \E j \in G : j < p /\ \A k \in (j + 1)..(p - 1) : k \in A \/ k \in B

AddRange(A, B, G, lo, hi) ==
    {p \in lo..hi : Xor3(p \in A, p \in B, CarryInto(A, B, G, p))}

AddBits(A, B) ==
    IF A = {} THEN B
    ELSE IF B = {} THEN A
    ELSE AddRange(A, B, A \cap B, SetMin(A \cup B), SetMax(A \cup B) + 1)

\* the borrow from place p of A - B; G is the set of places that need one
BorrowFrom(A, B, G, p) ==
    \E j \in G : j < p /\ \A k \in (j + 1)..(p - 1) : k \notin A \/ k \in B

SubRange(A, B, G, lo, hi) ==
    {p \in lo..hi : Xor3(p \in A, p \in B, BorrowFrom(A, B, G, p))}

\* A - B, A >= B
SubBits(A, B) ==
    IF B = {} THEN A
    ELSE SubRange(A, B, B \ A, SetMin(A \cup B), SetMax(A \cup B))

BitsGreaterEq(A, B) == A = B \/ SetMax((A \ B) \cup (B \ A)) \in A

\* round to nearest, ties to even, at 53 significant bits below top
RoundUp(S, top) ==
    /\ (top - 53) \in S
    /\ (top - 52) \in S \/ \E p \in S : p < top - 53

RoundAt(S, top) ==
    IF RoundUp(S, top)
    THEN AddBits({p \in S : p >= top - 52}, {top - 52})
    ELSE {p \in S : p >= top - 52}

Round53(S) == IF S = {} THEN {} ELSE RoundAt(S, SetMax(S))

\* float(decimal literal)
Sign(v) == IF v.m < 0 THEN 0 - 1 ELSE 1
Bits(v) == IF v.k = "bin" THEN v.bits ELSE Round53(DecimalBits(Sign(v) * v.m, v.x))

\* the float of sign s and bits R: the decimal d when d is that float
FloatOf(s, R, d) ==
    IF R = {} THEN Zero
    ELSE IF d.k = "fin" /\ d.m # 0 /\ Sign(d) = s /\ Bits(d) = R THEN d
    ELSE [k |-> "bin", m |-> s, x |-> 0, bits |-> R]

\* the decimal a + b of two decimals, NaN when one of them is not a decimal
DecimalSum(a, b) ==
    IF a.k = "fin" /\ b.k = "fin" THEN AddAt(a, b, Min(a.x, b.x)) ELSE NaN

SignedSum(sa, A, sb, B, d) ==
    IF sa = sb THEN FloatOf(sa, Round53(AddBits(A, B)), d)
    ELSE IF BitsGreaterEq(A, B) THEN FloatOf(sa, Round53(SubBits(A, B)), d)
    ELSE FloatOf(sb, Round53(SubBits(B, A)), d)

IsInteger(v) == v.k = "fin" /\ v.x >= 0

IsFinite(v) == v.k \in {"fin", "bin"}

\* a + b when a or b is inf or nan
NonFiniteSum(a, b) ==
    IF a.k = "nan" \/ b.k = "nan" THEN NaN
    ELSE IF ~IsFinite(a) /\ ~IsFinite(b) THEN (IF Sign(a) = Sign(b) THEN a ELSE NaN)
    ELSE IF IsFinite(a) THEN b
    ELSE a

\* a + b and a - b of two floats
Add(a, b) ==
    IF ~IsFinite(a) \/ ~IsFinite(b) THEN NonFiniteSum(a, b)
    ELSE IF IsZero(a) THEN b
    ELSE IF IsZero(b) THEN a
    ELSE IF IsInteger(a) /\ IsInteger(b) THEN AddAt(a, b, Min(a.x, b.x))
    ELSE SignedSum(Sign(a), Bits(a), Sign(b), Bits(b), DecimalSum(a, b))
Subtract(a, b) == Add(a, Neg(b))

\* sum(values), from the left
RECURSIVE Sum(_)
Sum(values) ==
    IF values = <<>> THEN Zero
    ELSE Add(Sum(SubSeq(values, 1, Len(values) - 1)), values[Len(values)])

-----------------------------------------------------------------------------
(* The header extractors                                                   *)

\* the literal lit at position i of s, under re.IGNORECASE
IMatchAt(s, i, lit) ==
    /\ i >= 1
    /\ i + Len(lit) - 1 <= Len(s)
    /\ LowerStr(Sub(s, i, i + Len(lit) - 1)) = LowerStr(lit)

\* the positions of s where lit occurs, under re.IGNORECASE
IOccurrences(s, lit) == Occurrences(LowerStr(s), LowerStr(lit))

\* the length of the match of [\d.,]* at position i of s
RECURSIVE AmountRun(_, _)
AmountRun(s, i) ==
    IF IsDigit(Ch(s, i)) \/ Ch(s, i) \in {".", ","} THEN 1 + AmountRun(s, i + 1) ELSE 0

SkipAmount(s, i) == i + AmountRun(s, i)

\* a match of two amounts: g1..e1 and g2..e2 are the groups; ok says that the
\* rest of the pattern matched
TwoAmounts(s, ok, g1, e1, g2, e2) ==
    [ok |-> ok /\ e1 > g1 /\ e2 > g2, g1 |-> Sub(s, g1, e1 - 1), g2 |-> Sub(s, g2, e2 - 1)]

\* r'SALDO ACTUAL\s*\$?\s*([\d.,]+)\s*U\$S\s*([\d.,]+)' at position i of s
SaldoActualSecond(s, i, g1, e1, u) ==
    TwoAmounts(s, IMatchAt(s, i, "SALDO ACTUAL") /\ IMatchAt(s, u, "U$S"), g1, e1,
               SkipSpaces(s, u + Len("U$S")), SkipAmount(s, SkipSpaces(s, u + Len("U$S"))))
SaldoActualFirst(s, i, g1) ==
    SaldoActualSecond(s, i, g1, SkipAmount(s, g1), SkipSpaces(s, SkipAmount(s, g1)))
SaldoActualGroups(s, i) ==
    SaldoActualFirst(s, i,
        SkipSpaces(s, SkipChar(s, SkipSpaces(s, i + Len("SALDO ACTUAL")), {"$"})))

\* (saldo_pesos, saldo_dolares) of a match; (0.0, 0.0) without one
SaldoPair(match) ==
    IF match.ok THEN <<parse_amount(match.g1), parse_amount(match.g2)>> ELSE <<Zero, Zero>>

\* re.search: the leftmost position of s where the pattern matches, 0 for none
extract_saldo_actual(text) ==
    SaldoPair(SaldoActualGroups(text,
        MinOrZero({i \in IOccurrences(text, "SALDO ACTUAL") : SaldoActualGroups(text, i).ok})))

\* r'SALDO PENDIENTE\s+([\d.,]+)\s+([\d.,]+)' at position i of s
SaldoPendienteSecond(s, i, a, g1, e1, g2) ==
    TwoAmounts(s, IMatchAt(s, i, "SALDO PENDIENTE") /\ g1 > a /\ g2 > e1, g1, e1, g2,
               SkipAmount(s, g2))
SaldoPendienteFirst(s, i, a, g1, e1) ==
    SaldoPendienteSecond(s, i, a, g1, e1, SkipSpaces(s, e1))
SaldoPendienteGroups(s, i) ==
    SaldoPendienteFirst(s, i, i + Len("SALDO PENDIENTE"),
                        SkipSpaces(s, i + Len("SALDO PENDIENTE")),
                        SkipAmount(s, SkipSpaces(s, i + Len("SALDO PENDIENTE"))))

extract_saldo_pendiente(text) ==
    SaldoPair(SaldoPendienteGroups(text,
        MinOrZero({i \in IOccurrences(text, "SALDO PENDIENTE") :
                       SaldoPendienteGroups(text, i).ok})))

\* a label, then \s*, then (\d{1,2})-([A-Za-z]{3})-(\d{2}), at position i of s:
\* the three groups joined by '-'
DateToken(ok, d) == [ok |-> ok /\ d.ok, token |-> d.g1 \o "-" \o d.g2 \o "-" \o d.g3]
LabelledDate(s, i, label) ==
    DateToken(IMatchAt(s, i, label), DateMatch(From(s, SkipSpaces(s, i + Len(label)))))

\* parse_date of the token of a match; None without a match
DateOfToken(match) == IF match.ok THEN parse_date(match.token) ELSE NoDate

\* (date, month, year)
DateMonthYear(date_obj) ==
    IF date_obj # NoDate THEN <<date_obj, date_obj.mo, date_obj.y>> ELSE <<NoDate, 0, 0>>

extract_statement_date(text) ==
    DateMonthYear(DateOfToken(LabelledDate(text,
        MinOrZero({i \in IOccurrences(text, "ESTADO DE CUENTA AL:") :
                       LabelledDate(text, i, "ESTADO DE CUENTA AL:").ok}),
        "ESTADO DE CUENTA AL:")))

\* r'PROXIMO\s*' and a second word, then the date, at position i of s
ProximoToken(ok, d) == [ok |-> ok /\ d.ok, token |-> d.token]
ProximoDate(s, i, word) ==
    ProximoToken(IMatchAt(s, i, "PROXIMO"),
                 LabelledDate(s, SkipSpaces(s, i + Len("PROXIMO")), word))

extract_proximo_cierre(text) ==
    DateOfToken(ProximoDate(text,
        MinOrZero({i \in IOccurrences(text, "PROXIMO") : ProximoDate(text, i, "CIERRE:").ok}), "CIERRE:"))

extract_proximo_vencimiento(text) ==
    DateOfToken(ProximoDate(text,
        MinOrZero({i \in IOccurrences(text, "PROXIMO") :
                       ProximoDate(text, i, "VENCIMIENTO:").ok}),
        "VENCIMIENTO:"))

-----------------------------------------------------------------------------
(* parse_mastercard_pdf                                                    *)

\* page.extract_text() of a page without text
NoText == "<None>"

\* s.split('\n')
RECURSIVE SplitLines(_)
SplitAt(s, i) == IF i = 0 THEN <<s>> ELSE <<Sub(s, 1, i - 1)>> \o SplitLines(From(s, i + 1))
SplitLines(s) == SplitAt(s, Find(s, "\n"))

\* re.match(r'^\d{1,2}-[A-Za-z]{3}-\d{2}\s', line)
DateThenSpace(line, d) == d.ok /\ IsSpace(Ch(line, d.end + 1))
StartsWithDate(line) == DateThenSpace(line, DateMatch(line))

\* the values of the function's locals before the first page is read
NoHeader ==
    [saldo_pesos |-> Zero, saldo_dolares |-> Zero,
     saldo_pendiente_pesos |-> Zero, saldo_pendiente_dolares |-> Zero,
     statement_date |-> NoDate, month |-> 0, year |-> 0,
     proximo_cierre |-> NoDate, proximo_vencimiento |-> NoDate]

\* the header info of the first page
HeaderOfActualTwice(actual, pendiente, stmt, cierre, vencimiento) ==
    [saldo_pesos |-> actual[1], saldo_dolares |-> actual[2],
     saldo_pendiente_pesos |-> actual[1], saldo_pendiente_dolares |-> actual[2],
     statement_date |-> stmt[1], month |-> stmt[2], year |-> stmt[3],
     proximo_cierre |-> cierre, proximo_vencimiento |-> vencimiento]
HeaderOf(actual, pendiente, stmt, cierre, vencimiento) ==
    [saldo_pesos |-> actual[1], saldo_dolares |-> actual[2],
     saldo_pendiente_pesos |-> pendiente[1], saldo_pendiente_dolares |-> pendiente[2],
     statement_date |-> stmt[1], month |-> stmt[2], year |-> stmt[3],
     proximo_cierre |-> cierre, proximo_vencimiento |-> vencimiento]

ExtractHeader(page_text) ==
    HeaderOf(extract_saldo_actual(page_text), extract_saldo_pendiente(page_text),
             extract_statement_date(page_text), extract_proximo_cierre(page_text),
             extract_proximo_vencimiento(page_text))

\* Impuestos = Saldo Actual - Total Consumos - Saldo Pendiente
ClampAtZero(d) == IF IsNegative(d) THEN Zero ELSE d
ImpuestosClamped(saldo, total, saldo_pendiente) ==
    ClampAtZero(Subtract(Subtract(saldo, total), saldo_pendiente))
Impuestos(saldo, total, saldo_pendiente) == Subtract(Subtract(saldo, total), saldo_pendiente)

AmountsPesos(txs) == [i \in 1..Len(txs) |-> txs[i].amount_pesos]
AmountsDolares(txs) == [i \in 1..Len(txs) |-> txs[i].amount_dollars]

StatementRecord(h, txs, total_pesos, total_dolares) ==
    [k |-> "StatementData",
     saldo_actual_pesos |-> h.saldo_pesos,
     saldo_actual_dolares |-> h.saldo_dolares,
     transactions |-> txs,
     impuestos_pesos |-> Impuestos(h.saldo_pesos, total_pesos, h.saldo_pendiente_pesos),
     impuestos_dolares |-> Impuestos(h.saldo_dolares, total_dolares, h.saldo_pendiente_dolares),
     total_transactions_pesos |-> total_pesos,
     total_transactions_dolares |-> total_dolares,
     saldo_pendiente_pesos |-> h.saldo_pendiente_pesos,
     saldo_pendiente_dolares |-> h.saldo_pendiente_dolares,
     month |-> h.month,
     year |-> h.year,
     statement_date |-> h.statement_date,
     proximo_cierre |-> h.proximo_cierre,
     proximo_vencimiento |-> h.proximo_vencimiento]

StatementData(h, txs) ==
    StatementRecord(h, txs, Sum(AmountsPesos(txs)), Sum(AmountsDolares(txs)))

\* page.extract_text() raises: the page cannot be read at all
ExtractRaises == "<raises>"
RaisesOrNoText(extracted) == extracted \in {ExtractRaises, NoText}
\* page_text = page.extract_text() or "" raises only when extract_text() does
ExtractionRaises(extracted) == extracted = ExtractRaises

\* the handle after the with block is left, by its end or by an exception
ExitLeavesAsIs(is_open) == is_open
ExitPdf(is_open) == FALSE

\* page.extract_text() or ""
TextOrEmpty(extracted) == IF extracted = NoText \/ extracted = "" THEN "" ELSE extracted

\* the header after a page is read: the first page alone sets it
HeaderAfterEveryPage(old, n, page_text) == ExtractHeader(page_text)
HeaderAfter(old, n, page_text) == IF n = 0 THEN ExtractHeader(page_text) ELSE old

\* the transaction of a line of the text, NoTransaction for a line skipped
LineTransaction(line) ==
    IF line # "" /\ StartsWithDate(line) THEN parse_transaction_line(line) ELSE NoTransaction

\* with pdfplumber.open(file_path) as pdf
OpenPdf ==
    /\ pc = "open"
    /\ pc' = "pages"
    /\ pdf_open' = TRUE
    /\ full_text' = ""
    /\ UNCHANGED <<pdf_pages, page_num, header, lines, transactions, tx_lines, result>>
    /\ UNCHANGED <<func_vars, upload_vars>>

\* one turn of the loop over pdf.pages
ReadPage ==
    /\ pc = "pages"
    /\ page_num < Len(pdf_pages)
    /\ ~ExtractionRaises(pdf_pages[page_num + 1])
    /\ full_text' = full_text \o TextOrEmpty(pdf_pages[page_num + 1]) \o "\n"
    /\ header' = HeaderAfter(header, page_num, TextOrEmpty(pdf_pages[page_num + 1]))
    /\ page_num' = page_num + 1
    /\ UNCHANGED <<pdf_pages, pdf_open, pc, lines, transactions, tx_lines, result>>
    /\ UNCHANGED <<func_vars, upload_vars>>

\* a turn of the loop in which extract_text() raises: the exception leaves
\* the with block, which closes the document, and parse_mastercard_pdf
ReadPageRaises ==
    /\ pc = "pages"
    /\ page_num < Len(pdf_pages)
    /\ ExtractionRaises(pdf_pages[page_num + 1])
    /\ pdf_open' = ExitPdf(pdf_open)
    /\ pc' = "raised"
    /\ UNCHANGED <<pdf_pages, page_num, full_text, header, lines, transactions, tx_lines,
                   result>>
    /\ UNCHANGED <<func_vars, upload_vars>>

\* lines = full_text.split('\n'), after the last page
SplitText ==
    /\ pc = "pages"
    /\ page_num = Len(pdf_pages)
    /\ lines' = SplitLines(full_text)
    /\ pc' = "lines"
    /\ UNCHANGED <<pdf_pages, pdf_open, page_num, full_text, header, transactions, tx_lines,
                   result>>
    /\ UNCHANGED <<func_vars, upload_vars>>

\* the lists after a line is scanned
ScannedFront(txs, transaction) ==
    IF transaction # NoTransaction THEN <<transaction>> \o txs ELSE txs
Scanned(txs, transaction) ==
    IF transaction # NoTransaction THEN Append(txs, transaction) ELSE txs
ScannedLines(tls, line, transaction) ==
    IF transaction # NoTransaction THEN Append(tls, line) ELSE tls

\* one turn of the loop over lines
ScanLine ==
    /\ pc = "lines"
    /\ lines # <<>>
    /\ transactions' = Scanned(transactions, LineTransaction(StripStr(Head(lines))))
    /\ tx_lines' = ScannedLines(tx_lines, Head(lines), LineTransaction(StripStr(Head(lines))))
    /\ lines' = Tail(lines)
    /\ UNCHANGED <<pdf_pages, pdf_open, pc, page_num, full_text, header, result>>
    /\ UNCHANGED <<func_vars, upload_vars>>

\* the with block ends; the totals and the taxes; return StatementData(...)
ReturnStatement ==
    /\ pc = "lines"
    /\ lines = <<>>
    /\ pdf_open' = ExitPdf(pdf_open)
    /\ result' = StatementData(header, transactions)
    /\ pc' = "done"
    /\ UNCHANGED <<pdf_pages, page_num, full_text, header, lines, transactions, tx_lines>>
    /\ UNCHANGED <<func_vars, upload_vars>>

-----------------------------------------------------------------------------
(* upload_statement of main.py, from the call of parse_mastercard_pdf on:  *)
(* the rows it adds to the session and commits. One user uploads one file; *)
(* the user and the category of a row are left out.                        *)

\* datetime.utcnow(): the days the clock may show
Clock == {Date(2026, 1, 15), Date(2026, 2, 3)}

\* abs(value)
AbsValue(v) == IF IsNegative(v) THEN Neg(v) ELSE v

\* abs(value) >= n
AbsGreaterEq(v, n) ==
    IF ~IsFinite(v) THEN v.k = "inf" ELSE BitsGreaterEq(Bits(v), IntBits(n))

\* abs(value) > n, n a natural number
AbsGreater(v, n) ==
    IF ~IsFinite(v) THEN v.k = "inf"
    ELSE Bits(v) # IntBits(n) /\ BitsGreaterEq(Bits(v), IntBits(n))

ImpuestosThreshold == 100

\* value or default, for an int and for a date
IntOr(value, default) == IF value # 0 THEN value ELSE default
DateOr(value, default) == IF value # NoDate THEN value ELSE default

\* models.Statement(...), with the id the flush gives it
StatementRow(data, now) ==
    [k |-> "Statement", id |-> 1,
     month |-> IntOr(data.month, now.mo), year |-> IntOr(data.year, now.y),
     total_pesos |-> data.saldo_actual_pesos, total_dollars |-> data.saldo_actual_dolares,
     statement_date |-> data.statement_date, proximo_cierre |-> data.proximo_cierre,
     proximo_vencimiento |-> data.proximo_vencimiento, transaction_count |-> 0]

\* f"Cupon: {t.coupon_number}" if t.coupon_number else None
Description(coupon_number) ==
    IF coupon_number # "" THEN "Cupon: " \o coupon_number ELSE "<None>"

\* models.Transaction(...); parsed is history: the place in
\* statement_data.transactions of the transaction the row was made for, 0 for
\* the row of the taxes
TransactionRow(statement_id, merchant, amount, is_dollar, date, description, parsed) ==
    [k |-> "TransactionRow", statement_id |-> statement_id, merchant |-> merchant,
     amount |-> amount, is_dollar |-> is_dollar, date |-> date,
     description |-> description, parsed |-> parsed]

\* the rows added for one parsed transaction
PesosRows(t, statement_id, i) ==
    IF Truthy(t.amount_pesos)
    THEN <<TransactionRow(statement_id, t.merchant, AbsValue(t.amount_pesos), FALSE, t.date,
                          Description(t.coupon_number), i)>>
    ELSE <<>>
DollarsRows(t, statement_id, i) ==
    IF Truthy(t.amount_dollars)
    THEN <<TransactionRow(statement_id, t.merchant, AbsValue(t.amount_dollars), TRUE, t.date,
                          Description(t.coupon_number), i)>>
    ELSE <<>>
RowsOf(t, statement_id, i) == PesosRows(t, statement_id, i) \o DollarsRows(t, statement_id, i)

\* the row of the taxes, when they are significant
ImpuestosRows(data, statement_id, now) ==
    IF AbsGreater(data.impuestos_pesos, ImpuestosThreshold)
    THEN <<TransactionRow(statement_id, "Impuestos y Cargos del Resumen",
                          AbsValue(data.impuestos_pesos), FALSE,
                          DateOr(data.statement_date, now),
                          "Calculado automaticamente (diferencia entre saldo y transacciones)",
                          0)>>
    ELSE <<>>

\* db.add(statement); db.flush()
AddStatement ==
    /\ pc = "done"
    /\ \E now \in Clock : db_statement' = StatementRow(result, now)
    /\ db_transactions' = <<>>
    /\ up_i' = 0
    /\ pc' = "rows"
    /\ UNCHANGED <<pdf_pages, pdf_open, page_num, full_text, header, lines, transactions,
                   tx_lines, result>>
    /\ UNCHANGED <<func_vars, tmp_exists, api_vars>>

\* one turn of the loop over statement_data.transactions
AddTransactionRows ==
    /\ pc = "rows"
    /\ up_i < Len(result.transactions)
    /\ db_transactions' =
           db_transactions \o RowsOf(result.transactions[up_i + 1], db_statement.id, up_i + 1)
    /\ up_i' = up_i + 1
    /\ UNCHANGED <<db_statement, pdf_vars, func_vars, tmp_exists, api_vars>>

\* the statement row with transaction_count = len(transactions_created)
Counted(statement, rows) == [statement EXCEPT !.transaction_count = Len(rows)]

\* os.unlink(tmp_path): the file is there no more
Unlinked(exists) == FALSE

\* the row of the taxes, the count of the rows, db.commit(), and the
\* temporary file removed
CommitUpload ==
    /\ pc = "rows"
    /\ up_i = Len(result.transactions)
    /\ \E now \in Clock :
           /\ db_transactions' = db_transactions \o ImpuestosRows(result, db_statement.id, now)
           /\ db_statement' =
                  Counted(db_statement,
                          db_transactions \o ImpuestosRows(result, db_statement.id, now))
    /\ tmp_exists' = Unlinked(tmp_exists)
    /\ pc' = "committed"
    /\ UNCHANGED <<pdf_pages, pdf_open, page_num, full_text, header, lines, transactions,
                   tx_lines, result, up_i>>
    /\ UNCHANGED <<func_vars, api_vars>>

\* except Exception: the exception of parse_mastercard_pdf becomes the
\* response 500; no row has been added, and the handler does nothing about
\* the temporary file
UploadFails ==
    /\ pc = "raised"
    /\ pc' = "error 500"
    /\ UNCHANGED <<pdf_pages, pdf_open, page_num, full_text, header, lines, transactions,
                   tx_lines, result>>
    /\ UNCHANGED <<func_vars, upload_vars>>

-----------------------------------------------------------------------------
(* The endpoints of main.py that write the tables of categories,           *)
(* transactions and statements, each request by an authenticated user.     *)
(* A row keeps the columns the endpoints select and set: its id, its       *)
(* owner, and for a transaction its category and statement (0 for NULL).   *)
(* A category_id that names no row is never sent: whether the database     *)
(* refuses it depends on its foreign-key setting.                          *)

Users == {1, 2}

\* the id the database gives a new row of the table
NextId(table) == 1 + MaxOrZero({r.id : r \in table})

\* models.Category(user_id=...), models.Transaction(...), models.Statement(...)
Category(id, user_id) == [k |-> "Category", id |-> id, user_id |-> user_id]
StoredTransaction(id, user_id, category_id, statement_id) ==
    [k |-> "StoredTransaction", id |-> id, user_id |-> user_id,
     category_id |-> category_id, statement_id |-> statement_id]
StoredStatement(id, user_id) ==
    [k |-> "Statement", id |-> id, user_id |-> user_id, transaction_count |-> 0]

\* db.query(Model).filter(Model.id == id, Model.user_id == current_user.id)
Owned(table, id, user) == {r \in table : r.id = id /\ r.user_id = user}

\* the ids of the categories of the table, and of those of a user
CategoryIds(table) == {c.id : c \in table}
CategoryIdsOf(table, user) == {c.id : c \in {r \in table : r.user_id = user}}

\* .filter(Transaction.category_id == category_id).update({"category_id": None})
CategoryNulled(table, category_id) ==
    {IF t.category_id = category_id THEN [t EXCEPT !.category_id = 0] ELSE t : t \in table}

\* setattr(transaction, "category_id", value) on the transaction of the id
WithCategory(table, transaction_id, category_id) ==
    {IF t.id = transaction_id THEN [t EXCEPT !.category_id = category_id] ELSE t :
        t \in table}

\* db.delete(row)
Deleted(table, id) == {r \in table : r.id # id}

\* db.delete(statement): the transactions of the statement go with it
\* (relationship cascade="all, delete-orphan")
CascadeDeleted(table, statement_id) == {t \in table : t.statement_id # statement_id}

\* the rows of transactions that upload_statement adds for the statement: one
\* for each entry of category_ids, with ids from first_id on
UploadedRows(first_id, user, statement_id, category_ids) ==
    {StoredTransaction(first_id + n - 1, user, category_ids[n], statement_id) :
        n \in 1..Len(category_ids)}

\* the columns of the request that the model keeps are left alone
ParserUntouched ==
    UNCHANGED <<func_vars, pdf_vars, db_statement, db_transactions, up_i, tmp_exists>>

\* POST /api/categories
create_category ==
    \E user \in Users :
        /\ NextId(categories_table) <= MaxCategories
        /\ categories_table' =
               categories_table \cup {Category(NextId(categories_table), user)}
        /\ current_user' = user
        /\ UNCHANGED <<transactions_table, statements_table>>
        /\ ParserUntouched

\* DELETE /api/categories/{category_id}; 404 when the user has no such category
delete_category ==
    \E user \in Users, category_id \in 1..MaxCategories :
        /\ current_user' = user
        /\ IF Owned(categories_table, category_id, user) = {}
           THEN UNCHANGED <<categories_table, transactions_table>>
           ELSE /\ transactions_table' = CategoryNulled(transactions_table, category_id)
                /\ categories_table' = Deleted(categories_table, category_id)
        /\ UNCHANGED statements_table
        /\ ParserUntouched

\* POST /api/transactions
create_transaction ==
    \E user \in Users, category_id \in {0} \cup CategoryIds(categories_table) :
        /\ NextId(transactions_table) <= MaxTransactions
        /\ transactions_table' =
               transactions_table
                   \cup {StoredTransaction(NextId(transactions_table), user, category_id, 0)}
        /\ current_user' = user
        /\ UNCHANGED <<categories_table, statements_table>>
        /\ ParserUntouched

\* PUT /api/transactions/{transaction_id}; category_id 0 is 'not given'
put_update_transaction ==
    \E user \in Users, transaction_id \in 1..MaxTransactions,
       category_id \in {0} \cup CategoryIds(categories_table) :
        /\ current_user' = user
        /\ IF Owned(transactions_table, transaction_id, user) = {} \/ category_id = 0
           THEN UNCHANGED transactions_table
           ELSE transactions_table' =
                    WithCategory(transactions_table, transaction_id, category_id)
        /\ UNCHANGED <<categories_table, statements_table>>
        /\ ParserUntouched

\* PATCH /api/transactions/{transaction_id} with category_id in the body:
\* null (0), or the id of a category, which has to be one of the user
patch_update_transaction ==
    \E user \in Users, transaction_id \in 1..MaxTransactions,
       category_id \in {0} \cup CategoryIds(categories_table) :
        /\ current_user' = user
        /\ IF \/ Owned(transactions_table, transaction_id, user) = {}
              \/ category_id # 0 /\ Owned(categories_table, category_id, user) = {}
           THEN UNCHANGED transactions_table
           ELSE transactions_table' =
                    WithCategory(transactions_table, transaction_id, category_id)
        /\ UNCHANGED <<categories_table, statements_table>>
        /\ ParserUntouched

\* DELETE /api/transactions/{transaction_id}
delete_transaction ==
    \E user \in Users, transaction_id \in 1..MaxTransactions :
        /\ current_user' = user
        /\ IF Owned(transactions_table, transaction_id, user) = {}
           THEN UNCHANGED transactions_table
           ELSE transactions_table' = Deleted(transactions_table, transaction_id)
        /\ UNCHANGED <<categories_table, statements_table>>
        /\ ParserUntouched

\* POST /api/upload of a PDF, committed: the statement, a row for each
\* transaction kept, each with a category of the user or none, and the count
upload_statement ==
    \E user \in Users, n \in 0..MaxTransactions :
        \E category_ids \in [1..n -> {0} \cup CategoryIdsOf(categories_table, user)] :
            /\ NextId(statements_table) <= MaxStatements
            /\ NextId(transactions_table) + n - 1 <= MaxTransactions
            /\ statements_table' =
                   statements_table
                       \cup {Counted(StoredStatement(NextId(statements_table), user),
                                     category_ids)}
            /\ transactions_table' =
                   transactions_table
                       \cup UploadedRows(NextId(transactions_table), user,
                                         NextId(statements_table), category_ids)
            /\ current_user' = user
            /\ UNCHANGED categories_table
            /\ ParserUntouched

\* DELETE /api/statements/{statement_id}
delete_statement ==
    \E user \in Users, statement_id \in 1..MaxStatements :
        /\ current_user' = user
        /\ IF Owned(statements_table, statement_id, user) = {}
           THEN UNCHANGED <<statements_table, transactions_table>>
           ELSE /\ statements_table' = Deleted(statements_table, statement_id)
                /\ transactions_table' = CascadeDeleted(transactions_table, statement_id)
        /\ UNCHANGED categories_table
        /\ ParserUntouched

-----------------------------------------------------------------------------
(* The documents parse_mastercard_pdf is called with: up to MaxItems text  *)
(* blocks and page breaks, in every order.                                 *)

PageBreak == "<page break>"

TextBlocks ==
    {"SALDO ACTUAL $ 1500,00 U$S 0,41",
     "SALDO PENDIENTE 500,00 0,00",
     "ESTADO DE CUENTA AL: 31-Dic-25\nPROXIMO CIERRE: 29-Ene-26\nPROXIMO VENCIMIENTO: 11-Feb-26",
     "26-Nov-25 NETFLIX.COM 00779 1500,00",
     "26-Nov-25 GOOGLE (USA,ARS, 600,00) 00761 0,41",
     "30-Nov-25 PUPPIS 02842 2000,00",
     "1-Dic-25 SU PAGO -500,00\nPagina 1 de 2"}

DocItems == TextBlocks \cup {PageBreak}

RECURSIVE ItemSeqs(_)
ItemSeqs(n) ==
    IF n = 0 THEN {<<>>}
    ELSE {<<>>} \cup {<<it>> \o r : it \in DocItems, r \in ItemSeqs(n - 1)}

\* the pages of a sequence of items: a page break ends a page, the blocks of
\* a page are its lines, and a page without blocks has no text
RECURSIVE PagesOf(_, _)
PagesOf(items, page) ==
    IF items = <<>> THEN <<page>>
    ELSE IF Head(items) = PageBreak THEN <<page>> \o PagesOf(Tail(items), NoText)
    ELSE PagesOf(Tail(items),
                 IF page = NoText THEN Head(items) ELSE page \o "\n" \o Head(items))

Documents == {PagesOf(items, NoText) : items \in ItemSeqs(MaxItems)}

-----------------------------------------------------------------------------
(* The statements upload_statement is called with: a page of up to         *)
(* MaxPageLines of the lines below, in this order, alone or before or      *)
(* after a page that has no text, cannot be read, or repeats the labels.   *)

StatementLines ==
    <<"26-Nov-25 NETFLIX.COM 00779 1500,00",
      "26-Nov-25 NETFLIX.COM 00779 1.234,56",
      "26-Nov-25 CAFE 00123 0,10",
      "27-Nov-25 KIOSCO 00124 0,20",
      "28-Nov-25 CORTESIA 00125 0,00",
      "SALDO ACTUAL $ 0,30 U$S 0,00",
      "SALDO ACTUAL $ 1500,00 U$S 0,00",
      "SALDO ACTUAL $ 1.234,56 U$S 0,00",
      "SALDO PENDIENTE 0,10 0,00",
      "ESTADO DE CUENTA AL: 31-Xyz-25">>

LabelsPage == "SALDO ACTUAL $ 2100,00 U$S 900,00\nPROXIMO CIERRE: 29-Ene-26\n30-Nov-25 PUPPIS 02842 2000,00"

\* the lines numbered in picked, from the i-th on, one per line of text
RECURSIVE PageOfLines(_, _)
PageOfLines(picked, i) ==
    IF i > Len(StatementLines) THEN ""
    ELSE IF i \in picked THEN StatementLines[i] \o "\n" \o PageOfLines(picked, i + 1)
    ELSE PageOfLines(picked, i + 1)

PageTexts ==
    {PageOfLines(picked, 1) : picked \in {S \in SUBSET (1..Len(StatementLines)) : Cardinality(S) <= MaxPageLines}}

OtherPages == {NoText, ExtractRaises, LabelsPage}

Statements ==
    {<<p>> : p \in PageTexts} \cup {<<p, q>> : p \in PageTexts, q \in OtherPages}
        \cup {<<q, p>> : p \in PageTexts, q \in OtherPages}

-----------------------------------------------------------------------------
(* The calls.  Each specification calls one function on every input of    *)
(* its set; the variables of the other functions stay idle.                *)

AmountIdle == amt_text = "" /\ amt_result = NotCalled
DateIdle == date_text = "" /\ date_result = NotCalled
LineIdle == line_text = "" /\ line_result = NotCalled
ApiIdle ==
    /\ categories_table = {}
    /\ transactions_table = {}
    /\ statements_table = {}
    /\ current_user = 0
DbIdle == db_statement = NoRow /\ db_transactions = <<>> /\ up_i = 0 /\ ApiIdle
UploadIdle == DbIdle /\ tmp_exists = FALSE
PdfIdle ==
    /\ pdf_pages = <<>>
    /\ pdf_open = FALSE
    /\ pc = "idle"
    /\ page_num = 0
    /\ full_text = ""
    /\ header = NoHeader
    /\ lines = <<>>
    /\ transactions = <<>>
    /\ tx_lines = <<>>
    /\ result = NotCalled
    /\ UploadIdle

CallParseAmount ==
    /\ amt_result = NotCalled
    /\ amt_result' = parse_amount(amt_text)
    /\ UNCHANGED <<amt_text, date_text, date_result, line_text, line_result>>
    /\ UNCHANGED <<pdf_vars, upload_vars>>

InitAmount ==
    /\ amt_text \in AmountTokens
    /\ amt_result = NotCalled
    /\ DateIdle
    /\ LineIdle
    /\ PdfIdle

NextAmount == CallParseAmount

SpecAmount == InitAmount /\ [][NextAmount]_vars

CallParseDate ==
    /\ date_result = NotCalled
    /\ date_result' = parse_date(date_text)
    /\ UNCHANGED <<date_text, amt_text, amt_result, line_text, line_result>>
    /\ UNCHANGED <<pdf_vars, upload_vars>>

InitDate ==
    /\ date_text \in DateTexts
    /\ date_result = NotCalled
    /\ AmountIdle
    /\ LineIdle
    /\ PdfIdle

NextDate == CallParseDate

SpecDate == InitDate /\ [][NextDate]_vars

CallParseTransactionLine ==
    /\ line_result = NotCalled
    /\ pc = "idle"
    /\ line_result' = parse_transaction_line(line_text)
    /\ UNCHANGED <<line_text, amt_text, amt_result, date_text, date_result>>
    /\ UNCHANGED <<pdf_vars, upload_vars>>

InitLine ==
    /\ line_text \in LineTexts
    /\ line_result = NotCalled
    /\ AmountIdle
    /\ DateIdle
    /\ PdfIdle

NextLine == CallParseTransactionLine

SpecLine == InitLine /\ [][NextLine]_vars

InitPdf ==
    /\ pdf_pages \in Documents
    /\ pdf_open = FALSE
    /\ pc = "open"
    /\ page_num = 0
    /\ full_text = ""
    /\ header = NoHeader
    /\ lines = <<>>
    /\ transactions = <<>>
    /\ tx_lines = <<>>
    /\ result = NotCalled
    /\ UploadIdle
    /\ AmountIdle
    /\ DateIdle
    /\ LineIdle

NextPdf == OpenPdf \/ ReadPage \/ SplitText \/ ScanLine \/ ReturnStatement

\* parse_mastercard_pdf on every document
Spec == InitPdf /\ [][NextPdf]_vars

\* the state when parse_mastercard_pdf is called: the upload has been copied
\* to the temporary file
InitStatement ==
    /\ pdf_pages \in Statements
    /\ pdf_open = FALSE
    /\ pc = "open"
    /\ page_num = 0
    /\ full_text = ""
    /\ header = NoHeader
    /\ lines = <<>>
    /\ transactions = <<>>
    /\ tx_lines = <<>>
    /\ result = NotCalled
    /\ DbIdle
    /\ tmp_exists = TRUE
    /\ AmountIdle
    /\ DateIdle
    /\ LineIdle

NextStatement ==
    NextPdf \/ ReadPageRaises \/ AddStatement \/ AddTransactionRows \/ CommitUpload
        \/ UploadFails

\* upload_statement on every statement: parse_mastercard_pdf, then the rows
SpecStatement == InitStatement /\ [][NextStatement]_vars

\* the requests of two registered users, each with the one category left of
\* those the registration gave them
InitApi ==
    /\ categories_table = {Category(1, 1), Category(2, 2)}
    /\ transactions_table = {}
    /\ statements_table = {}
    /\ current_user = 0
    /\ db_statement = NoRow
    /\ db_transactions = <<>>
    /\ up_i = 0
    /\ tmp_exists = FALSE
    /\ pdf_pages = <<>>
    /\ pdf_open = FALSE
    /\ pc = "idle"
    /\ page_num = 0
    /\ full_text = ""
    /\ header = NoHeader
    /\ lines = <<>>
    /\ transactions = <<>>
    /\ tx_lines = <<>>
    /\ result = NotCalled
    /\ AmountIdle
    /\ DateIdle
    /\ LineIdle

NextApi ==
    \/ create_category
    \/ delete_category
    \/ create_transaction
    \/ put_update_transaction
    \/ patch_update_transaction
    \/ delete_transaction
    \/ upload_statement
    \/ delete_statement

SpecApi == InitApi /\ [][NextApi]_vars

\* parse_transaction_line called on a line, or through parse_mastercard_pdf
SpecParser == (InitLine \/ InitPdf) /\ [][NextLine \/ NextPdf]_vars

-----------------------------------------------------------------------------
(* Properties of parse_amount, checked under SpecAmount.                   *)

\* the token with its parentheses and minus signs removed, trimmed
Unsigned(text) ==
    StripStr(ReplaceCh(ReplaceCh(ReplaceCh(StripStr(text), "(", ""), ")", ""), "-", ""))

\* no locale-formatted decimal number: nothing left after the sign and the
\* parentheses are removed, or a character that is no digit, period or comma
NoDigitsAndSeparators(t) ==
    t = "" \/ \E i \in 1..Len(t) : ~(IsDigit(Ch(t, i)) \/ Ch(t, i) \in {".", ","})
NotLocaleNumber(text) == NoDigitsAndSeparators(Unsigned(text))

\* I,FF and T.HHH,FF
PlainShapeAt(t, n) ==
    n >= 1 /\ MatchAt(t, n + 1, ",") /\ DigitRun(t, n + 2) = 2 /\ Len(t) = n + 3
IsPlainShape(t) == PlainShapeAt(t, DigitRun(t, 1))
ThousandShapeAt(t, n) ==
    /\ n >= 1 /\ MatchAt(t, n + 1, ".") /\ DigitRun(t, n + 2) = 3
    /\ MatchAt(t, n + 5, ",") /\ DigitRun(t, n + 6) = 2 /\ Len(t) = n + 7
IsThousandShape(t) == ThousandShapeAt(t, DigitRun(t, 1))

\* h / 100
Hundredths(h) == Normalize(h, 0 - 2)

PlainValueAt(t, n) ==
    Hundredths(DigitsValue(Sub(t, 1, n)) * 100 + DigitsValue(From(t, n + 2)))
PlainValue(t) == PlainValueAt(t, DigitRun(t, 1))
ThousandValueAt(t, n) ==
    Hundredths((DigitsValue(Sub(t, 1, n)) * 1000 + DigitsValue(Sub(t, n + 2, n + 4))) * 100
                   + DigitsValue(From(t, n + 6)))
ThousandValue(t) == ThousandValueAt(t, DigitRun(t, 1))

\* C4: parse_amount returns 0.0 for every token that is no locale-formatted
\* decimal number once its sign and parentheses are stripped ('', 'abc',
\* and also 'inf', 'nan', '1e5').
C4_UnparseableIsZero ==
    (amt_result # NotCalled /\ NotLocaleNumber(amt_text)) => amt_result = Zero

\* C5: the comma is the decimal separator and, with both present, the
\* period the thousands separator: I,FF gives I + FF/100 and T.HHH,FF gives
\* T*1000 + HHH + FF/100.
C5_CommaDecimalPeriodThousands ==
    amt_result # NotCalled =>
        /\ IsPlainShape(amt_text) => amt_result = PlainValue(amt_text)
        /\ IsThousandShape(amt_text) => amt_result = ThousandValue(amt_text)

C5_Witness ==
    amt_text = "1.234,56" /\ amt_result = [k |-> "fin", m |-> 123456, x |-> 0 - 2]

WrappedInParens(t) == StartsWith(t, "(") /\ EndsWith(t, ")")
MinusPrefixed(t) == StartsWith(t, "-")

\* C6 as stated: the result is the negated magnitude exactly when the token
\* is wrapped in parentheses or prefixed with a minus sign, and the
\* positive magnitude otherwise.
Magnitude(text) == parse_amount(Unsigned(text))
SignedAs(negated, mag) == IF negated THEN Neg(mag) ELSE mag

C6_NegatedIffWrappedOrMinus ==
    amt_result # NotCalled =>
        amt_result = SignedAs(WrappedInParens(StripStr(amt_text))
                                  \/ MinusPrefixed(StripStr(amt_text)),
                              Magnitude(amt_text))

\* C6 amended: the result is the negated magnitude exactly when the trimmed
\* token starts with '(' or '-' (a closing parenthesis is not required), and
\* the positive magnitude otherwise; the magnitude is the value of the token
\* with its parentheses and minus signs removed, and is never negative.
C6_NegatedIffLeadingParenOrMinus ==
    amt_result # NotCalled =>
        /\ ~IsNegative(Magnitude(amt_text))
        /\ IsPlainShape(Unsigned(amt_text))
               => Magnitude(amt_text) = PlainValue(Unsigned(amt_text))
        /\ amt_result = SignedAs(StartsWith(StripStr(amt_text), "(")
                                     \/ StartsWith(StripStr(amt_text), "-"),
                                 Magnitude(amt_text))

C6_Witness ==
    amt_text = "(500,00)" /\ amt_result = [k |-> "fin", m |-> 0 - 5, x |-> 2]

-----------------------------------------------------------------------------
(* Properties of parse_date, checked under SpecDate.                       *)

MonthLengths == <<31, 28, 31, 30, 31, 30, 31, 31, 30, 31, 30, 31>>

\* the text is exactly DD-<abbr>-YY
IsDateShaped(t) == DateMatch(t).ok /\ DateMatch(t).end = Len(t)
\* the number of the month abbreviation, in any letter case; 0 for no month
MonthNumber(abbr) ==
    IF \E i \in 1..12 : MonthNames[i] = LowerStr(abbr)
    THEN CHOOSE i \in 1..12 : MonthNames[i] = LowerStr(abbr)
    ELSE 0
\* day dd exists in month mo of the year 2000 + yy
IsCalendarDay(yy, mo, dd) ==
    /\ mo \in 1..12
    /\ dd >= 1
    /\ dd <= (IF mo = 2 /\ yy % 4 = 0 THEN 29 ELSE MonthLengths[mo])

\* C3: parse_date returns None for every input that is not DD-<abbr>-YY
\* with <abbr> one of the 12 month tokens, in any letter case.
C3_NonDateIsNone ==
    (/\ date_result # NotCalled
     /\ ~(IsDateShaped(date_text) /\ MonthNumber(DateMatch(date_text).g2) # 0))
        => date_result = NoDate

\* C7: for a valid calendar day DD, one of the 12 abbreviations in any
\* letter case and a two-digit year YY, parse_date('DD-<abbr>-YY') is the
\* date (2000 + YY, month of <abbr>, DD).
WellFormedDate(text, yy, mo, dd, date_obj) ==
    (IsDateShaped(text) /\ IsCalendarDay(yy, mo, dd)) => date_obj = Date(2000 + yy, mo, dd)
WellFormedMatch(text, match, date_obj) ==
    WellFormedDate(text, DigitsValue(match.g3), MonthNumber(match.g2), DigitsValue(match.g1),
                   date_obj)

C7_DateOfWellFormedText ==
    date_result # NotCalled => WellFormedMatch(date_text, DateMatch(date_text), date_result)

C7_Witness ==
    date_text = "29-Ene-26" /\ date_result = Date(2026, 1, 29)

-----------------------------------------------------------------------------
(* Properties of parse_transaction_line, checked under SpecLine.           *)

IsTransaction(t) == t.k = "Transaction"

\* the text after the date of a line, trimmed
Remainder(line) == StripStr(LineMatch(StripStr(line)).g2)

\* the position in s of the last match of the amount pattern, 0 for none
RECURSIVE LastNumberStart(_, _)
LaterOrHere(later, i, n) == IF later > 0 THEN later ELSE IF n > 0 THEN i ELSE 0
LastNumberFrom(s, i, n) == LaterOrHere(LastNumberStart(s, IF n > 0 THEN i + n ELSE i + 1), i, n)
LastNumberStart(s, i) == IF i > Len(s) THEN 0 ELSE LastNumberFrom(s, i, NumberMatchLen(s, i))

\* the matched amount of a line: the text of the last match
NumberAt(s, i) == Sub(s, i, i + NumberMatchLen(s, i) - 1)
LastNumberOf(s) == NumberAt(s, LastNumberStart(s, 1))
TrailingAmount(line) == LastNumberOf(Remainder(line))

HasNonZeroDigit(s) == \E i \in 1..Len(s) : IsDigit(Ch(s, i)) /\ Ch(s, i) # "0"

\* the amount a transaction carries in the column of its currency
AmountOf(t) == IF t.is_dollar THEN t.amount_dollars ELSE t.amount_pesos

IsCouponTokenAt(s, c, last) ==
    /\ IsSpace(Ch(s, c - 1))
    /\ DigitRun(s, c) = 5
    /\ SpaceRun(s, c + 5) >= 1
    /\ c + 5 + SpaceRun(s, c + 5) = last

\* the position of that token, 0 when there is none
CouponTokenAmong(s, last) ==
    MinOrZero({c \in 2..Len(s) : IsCouponTokenAt(s, c, last)})
CouponTokenStart(s) == CouponTokenAmong(s, LastNumberStart(s, 1))

\* C2: whenever a standalone 5-digit token separated by whitespace
\* immediately precedes the matched (last) amount, the Transaction returned
\* has that token as coupon_number and the normalized text before it as
\* merchant.
CouponAndMerchant(t, rest, c) ==
    c > 0 => /\ t.coupon_number = Sub(rest, c, c + 4)
             /\ t.merchant = StripStr(CollapseSpaces(Sub(rest, 1, c - 1)))
CouponOfRemainder(t, rest) == CouponAndMerchant(t, rest, CouponTokenStart(rest))

C2_CouponBeforeAmount ==
    IsTransaction(line_result) => CouponOfRemainder(line_result, Remainder(line_text))

\* the line contains one of the subtotal fragments, in any letter case
FragmentAt(line, j, fragment) ==
    \A n \in 1..Len(fragment) : LowerCh(Ch(line, j + n - 1)) = Ch(fragment, n)
ContainsSubtotalFragment(line) ==
    \E i \in 1..Len(skip_patterns) : \E j \in 1..Len(line) : FragmentAt(line, j, skip_patterns[i])

\* C9: the amount of a returned Transaction is the value of the LAST match
\* of the amount pattern in the remainder after the date; for the remainder
\* 'GOOGLE *YouTube (USA,ARS, 600,00) 00761 0,41' it is 0.41, not 600.00.
C9_AmountIsLastNumber ==
    IsTransaction(line_result) =>
        /\ AmountOf(line_result) = parse_amount(TrailingAmount(line_text))
        /\ Remainder(line_text) = "GOOGLE *YouTube (USA,ARS, 600,00) 00761 0,41"
               => AmountOf(line_result) = Hundredths(41)

C9_Witness ==
    /\ line_text = "26-Nov-25 GOOGLE *YouTube (USA,ARS, 600,00) 00761 0,41"
    /\ IsTransaction(line_result)
    /\ line_result.amount_dollars = Hundredths(41)

-----------------------------------------------------------------------------
(* Properties of the subtotal filter, checked under SpecParser.            *)

\* C8: no line that contains one of the subtotal fragments, in any letter
\* case, is emitted as a transaction: parse_transaction_line returns no
\* Transaction for it, and parse_mastercard_pdf has no transaction read from
\* such a line in its list, which is the list of the StatementData returned.
C8_SubtotalNeverEmitted ==
    /\ IsTransaction(line_result) => ~ContainsSubtotalFragment(line_text)
    /\ Len(tx_lines) = Len(transactions)
    /\ \A i \in 1..Len(tx_lines) : ~ContainsSubtotalFragment(tx_lines[i])
    /\ pc = "done" => result.transactions = transactions

C8_Witness ==
    /\ pc = "done"
    /\ Contains(full_text, "1-Dic-25 SU PAGO -500,00")
    /\ Len(result.transactions) = 2

-----------------------------------------------------------------------------
(* Properties of the totals, checked under Spec.                           *)

\* a value with at most two decimals, in hundredths
InHundredths(v) == v.k = "fin" /\ v.x >= 0 - 2
Cents(v) == v.m * Pow10(v.x + 2)

RECURSIVE SumCents(_)
SumCents(values) ==
    IF values = <<>> THEN 0 ELSE Cents(Head(values)) + SumCents(Tail(values))

AbsInt(n) == IF n < 0 THEN 0 - n ELSE n
SignInt(n) == IF n < 0 THEN 0 - 1 ELSE 1

RECURSIVE SumAbsCents(_)
SumAbsCents(values) ==
    IF values = <<>> THEN 0 ELSE AbsInt(Cents(Head(values))) + SumAbsCents(Tail(values))

\* the bits of |a - b|, a and b given by sign and bits
Distance(sa, A, sb, B) ==
    IF A = {} THEN B
    ELSE IF B = {} THEN A
    ELSE IF sa # sb THEN AddBits(A, B)
    ELSE IF BitsGreaterEq(A, B) THEN SubBits(A, B)
    ELSE SubBits(B, A)

\* the float v is c hundredths up to the rounding of sums and differences
\* of terms of at most scale hundredths: off by less than scale / 2^47
IsCents(v, c, scale) ==
    /\ IsFinite(v)
    /\ \A p \in Distance(Sign(v), Bits(v), SignInt(c), DecimalBits(AbsInt(c), 0 - 2)) :
           p + 47 < SetMax(IntBits(scale) \cup {0})

TotalAndResidualAt(amounts, saldo, total, pendiente, impuestos, scale) ==
    /\ IsCents(total, SumCents(amounts), scale)
    /\ IsCents(impuestos, Cents(saldo) - SumCents(amounts) - Cents(pendiente), scale)
    /\ SumCents(amounts) + Cents(pendiente) > Cents(saldo) => IsNegative(impuestos)

\* total equals the sum of the amounts, and impuestos = saldo - total -
\* pendiente, never clamped; the amounts have at most two decimals
TotalAndResidual(amounts, saldo, total, pendiente, impuestos) ==
    /\ \A i \in 1..Len(amounts) : InHundredths(amounts[i])
    /\ InHundredths(saldo)
    /\ InHundredths(pendiente)
    /\ TotalAndResidualAt(amounts, saldo, total, pendiente, impuestos,
                          SumAbsCents(amounts) + AbsInt(Cents(saldo)) + AbsInt(Cents(pendiente)))

\* C10: for every document, per currency, the total of the StatementData
\* returned is the sum of that amount over the emitted transactions and
\* impuestos is saldo_actual - total_transactions - saldo_pendiente, both as
\* floats (equal to the decimal sum and difference up to rounding); it is
\* never clamped, so it is negative whenever the sum plus the prior balance
\* exceeds the declared current balance.
C10_TotalsAndUnclampedResidual ==
    pc = "done" =>
        /\ TotalAndResidual(AmountsPesos(result.transactions),
                            result.saldo_actual_pesos, result.total_transactions_pesos,
                            result.saldo_pendiente_pesos, result.impuestos_pesos)
        /\ TotalAndResidual(AmountsDolares(result.transactions),
                            result.saldo_actual_dolares, result.total_transactions_dolares,
                            result.saldo_pendiente_dolares, result.impuestos_dolares)

C10_Witness ==
    /\ pc = "done"
    /\ Len(result.transactions) = 2
    /\ result.saldo_actual_pesos = Normalize(1500, 0)
    /\ result.total_transactions_pesos = Normalize(3500, 0)
    /\ result.impuestos_pesos = Normalize(0 - 2000, 0)

\* a statement that balances, per currency: the declared current balance is
\* the sum of the parsed amounts plus the declared prior balance
Balances(amounts, saldo, pendiente) ==
    /\ \A i \in 1..Len(amounts) : InHundredths(amounts[i])
    /\ InHundredths(saldo)
    /\ InHundredths(pendiente)
    /\ Cents(saldo) = SumCents(amounts) + Cents(pendiente)

\* C11: for every statement that balances in both currencies (any number of
\* transactions, any amounts of two decimals), parse_mastercard_pdf returns
\* impuestos_pesos and impuestos_dolares both exactly 0.0.
C11_BalancedStatementHasZeroImpuestos ==
    /\ pc = "done"
    /\ Balances(AmountsPesos(result.transactions), result.saldo_actual_pesos,
                result.saldo_pendiente_pesos)
    /\ Balances(AmountsDolares(result.transactions), result.saldo_actual_dolares,
                result.saldo_pendiente_dolares)
    => IsZero(result.impuestos_pesos) /\ IsZero(result.impuestos_dolares)

\* the amounts A of the scenario, as written and as numbers
ScenarioAmounts ==
    {<<"1500,00", Normalize(1500, 0)>>, <<"1.234,56", Normalize(123456, 0 - 2)>>}

\* the page of one transaction line of amount a and the balance line
ScenarioPage(a) ==
    "26-Nov-25 NETFLIX.COM 00779 " \o a \o "\nSALDO ACTUAL $ " \o a \o " U$S 0,00\n"

\* C12: a one-page document of the transaction line
\* '26-Nov-25 NETFLIX.COM 00779 A' and the line 'SALDO ACTUAL $ A U$S 0,00',
\* with no prior-balance line, yields exactly one transaction, with
\* amount_pesos = A and amount_dollars = 0, saldo_actual_pesos = A and
\* impuestos_pesos = 0.
C12_ScenarioOfOneTransaction ==
    \A a \in ScenarioAmounts :
        pc = "done" /\ pdf_pages = <<ScenarioPage(a[1])>> =>
            /\ Len(result.transactions) = 1
            /\ result.transactions[1].amount_pesos = a[2]
            /\ IsZero(result.transactions[1].amount_dollars)
            /\ result.saldo_actual_pesos = a[2]
            /\ IsZero(result.impuestos_pesos)

\* the scenario with A = 1500,00 is a statement of the model, and parsed as
\* the claim says
C12_ScenarioAsWritten ==
    /\ pc = "done"
    /\ pdf_pages = <<ScenarioPage("1500,00")>>
    /\ Len(result.transactions) = 1
    /\ result.transactions[1].amount_pesos = Normalize(1500, 0)
    /\ IsZero(result.impuestos_pesos)

-----------------------------------------------------------------------------
(* Properties of the header, checked under Spec, whose documents have the  *)
(* three header blocks of TextBlocks on any page.                          *)

\* the text of the first page, "" when it has none
FirstPageText == IF pdf_pages[1] = NoText THEN "" ELSE pdf_pages[1]
OnFirstPage(block) == Contains(FirstPageText, block)
OnLaterPage(block) == \E n \in 2..Len(pdf_pages) : Contains(pdf_pages[n], block)

SaldoActualBlock == "SALDO ACTUAL $ 1500,00 U$S 0,41"
SaldoPendienteBlock == "SALDO PENDIENTE 500,00 0,00"
DatesBlock ==
    "ESTADO DE CUENTA AL: 31-Dic-25\nPROXIMO CIERRE: 29-Ene-26\nPROXIMO VENCIMIENTO: 11-Feb-26"

\* value when the block is on the first page, missing otherwise
FromFirstPage(block, value, missing) == IF OnFirstPage(block) THEN value ELSE missing

\* C13: the header values of the StatementData returned (current balance
\* pair, prior balance pair, statement date with month and year, next
\* closing date, next due date) are those of the text of page 1 alone: a
\* block of labels on a later page changes none of them.
C13_HeaderFromFirstPageOnly ==
    pc = "done" =>
        /\ result.saldo_actual_pesos = FromFirstPage(SaldoActualBlock, Normalize(1500, 0), Zero)
        /\ result.saldo_actual_dolares = FromFirstPage(SaldoActualBlock, Normalize(41, 0 - 2), Zero)
        /\ result.saldo_pendiente_pesos = FromFirstPage(SaldoPendienteBlock, Normalize(500, 0), Zero)
        /\ result.saldo_pendiente_dolares = Zero
        /\ result.statement_date = FromFirstPage(DatesBlock, Date(2025, 12, 31), NoDate)
        /\ result.month = FromFirstPage(DatesBlock, 12, 0)
        /\ result.year = FromFirstPage(DatesBlock, 2025, 0)
        /\ result.proximo_cierre = FromFirstPage(DatesBlock, Date(2026, 1, 29), NoDate)
        /\ result.proximo_vencimiento = FromFirstPage(DatesBlock, Date(2026, 2, 11), NoDate)

\* a later page has the labels of the current balance and of the dates, the
\* first page has a transaction only, and the header is empty
C13_Witness ==
    /\ pc = "done"
    /\ Len(pdf_pages) >= 2
    /\ OnLaterPage(SaldoActualBlock) \/ OnLaterPage(DatesBlock)
    /\ ~OnFirstPage(SaldoActualBlock) /\ ~OnFirstPage(DatesBlock)
    /\ Len(result.transactions) >= 1
    /\ IsZero(result.saldo_actual_pesos)
    /\ result.statement_date = NoDate

-----------------------------------------------------------------------------
(* Properties of the pages, checked under SpecStatement, whose statements  *)
(* have pages without text and pages that cannot be read.                  *)

\* the text of the pages from the n-th on, a page without text giving ""
RECURSIVE FlatText(_, _)
FlatText(pages, n) ==
    IF n > Len(pages) THEN ""
    ELSE (IF pages[n] = NoText THEN "" ELSE pages[n]) \o "\n" \o FlatText(pages, n + 1)

\* the transactions of a sequence of lines, in order
RECURSIVE LinesTransactions(_)
LinesTransactions(ls) ==
    IF ls = <<>> THEN <<>>
    ELSE IF LineTransaction(StripStr(Head(ls))) = NoTransaction THEN LinesTransactions(Tail(ls))
    ELSE <<LineTransaction(StripStr(Head(ls)))>> \o LinesTransactions(Tail(ls))

\* the transactions of the pages that have text, from the n-th on
RECURSIVE PagesTransactions(_, _)
PagesTransactions(pages, n) ==
    IF n > Len(pages) THEN <<>>
    ELSE IF pages[n] = NoText THEN PagesTransactions(pages, n + 1)
    ELSE LinesTransactions(SplitLines(pages[n])) \o PagesTransactions(pages, n + 1)

HeaderIsEmpty(data) ==
    /\ IsZero(data.saldo_actual_pesos) /\ IsZero(data.saldo_actual_dolares)
    /\ IsZero(data.saldo_pendiente_pesos) /\ IsZero(data.saldo_pendiente_dolares)
    /\ data.statement_date = NoDate /\ data.month = 0 /\ data.year = 0
    /\ data.proximo_cierre = NoDate /\ data.proximo_vencimiento = NoDate

-----------------------------------------------------------------------------
(* Properties of the balances and the dates of the header.                 *)

\* the first page has the label, in any letter case
HasLabel(label) == Occurrences(LowerStr(FirstPageText), LowerStr(label)) # {}

\* C15: at the return of parse_mastercard_pdf, saldo_actual_pesos and
\* saldo_actual_dolares are both 0.0 when page 1 has no current-balance
\* label, and saldo_pendiente_pesos and saldo_pendiente_dolares are both 0.0
\* when it has no pending-balance label; the call returns in both cases, with
\* the transactions and the other header values of the document.
C15_MissingBalanceIsZero ==
    pc = "done" =>
        /\ ~HasLabel("SALDO ACTUAL") =>
               IsZero(result.saldo_actual_pesos) /\ IsZero(result.saldo_actual_dolares)
        /\ ~HasLabel("SALDO PENDIENTE") =>
               IsZero(result.saldo_pendiente_pesos) /\ IsZero(result.saldo_pendiente_dolares)
        /\ ~HasLabel("SALDO ACTUAL") \/ ~HasLabel("SALDO PENDIENTE") =>
               /\ result.transactions = PagesTransactions(pdf_pages, 1)
               /\ result.statement_date = FromFirstPage(DatesBlock, Date(2025, 12, 31), NoDate)
               /\ result.proximo_cierre = FromFirstPage(DatesBlock, Date(2026, 1, 29), NoDate)
               /\ result.proximo_vencimiento =
                      FromFirstPage(DatesBlock, Date(2026, 2, 11), NoDate)

\* page 1 has the pending balance and the dates but no current balance
C15_Witness ==
    /\ pc = "done"
    /\ ~HasLabel("SALDO ACTUAL")
    /\ HasLabel("SALDO PENDIENTE")
    /\ IsZero(result.saldo_actual_pesos)
    /\ result.saldo_pendiente_pesos = Normalize(500, 0)
    /\ result.statement_date = Date(2025, 12, 31)

\* a date as a statement writes it, in lower case: 31-dic-25
WrittenDate(d) == NumStr(d.d) \o "-" \o MonthNames[d.mo] \o "-" \o NumStr2(d.y - 2000)
WrittenDate2(d) == NumStr2(d.d) \o "-" \o MonthNames[d.mo] \o "-" \o NumStr2(d.y - 2000)

\* page 1 states the date d after the label
StatedAfter(label, d) ==
    /\ d # NoDate
    /\ d.y \in 2000..2099
    /\ \/ Occurrences(LowerStr(FirstPageText), LowerStr(label) \o " " \o WrittenDate(d)) # {}
       \/ Occurrences(LowerStr(FirstPageText), LowerStr(label) \o " " \o WrittenDate2(d)) # {}

AbsentOrStated(label, d) ==
    /\ d = NoDate \/ StatedAfter(label, d)
    /\ ~HasLabel(label) => d = NoDate

\* C16: each of statement_date, proximo_cierre and proximo_vencimiento of
\* the StatementData returned is absent or exactly the date written after
\* its label on page 1; a missing label gives absent, and no day, month or
\* year is substituted that the document does not state.
C16_DatesAbsentOrAsWritten ==
    pc = "done" =>
        /\ AbsentOrStated("ESTADO DE CUENTA AL:", result.statement_date)
        /\ AbsentOrStated("PROXIMO CIERRE:", result.proximo_cierre)
        /\ AbsentOrStated("PROXIMO VENCIMIENTO:", result.proximo_vencimiento)
        /\ result.statement_date = NoDate => result.month = 0 /\ result.year = 0
        /\ result.statement_date # NoDate =>
               result.month = result.statement_date.mo /\ result.year = result.statement_date.y

-----------------------------------------------------------------------------
(* The order of the transactions, checked under Spec.                      *)

IsPrefix(s, t) == Len(s) <= Len(t) /\ s = SubSeq(t, 1, Len(s))

\* C17: the transactions of parse_mastercard_pdf are in document order: every
\* step leaves the transactions emitted so far in place, adding at the end
\* only, and the list returned is the transactions of the lines of page 1,
\* page 2, ... in this order; nothing is re-sorted, deduplicated or dropped.
C17_TransactionsInDocumentOrder ==
    [][/\ IsPrefix(transactions, transactions')
       /\ pc' = "done" => result'.transactions = PagesTransactions(pdf_pages, 1)]_vars

\* two pages; the transaction of page 1 has the later date and stays first
C17_Witness ==
    /\ pc = "done"
    /\ Len(pdf_pages) = 2
    /\ Len(result.transactions) = 2
    /\ result.transactions[1].date = Date(2025, 11, 30)
    /\ result.transactions[2].date = Date(2025, 11, 26)

-----------------------------------------------------------------------------
(* Lines that are discarded, checked under SpecLine.                       *)

\* the groups d of a date-shaped token name a day of the calendar
NamesCalendarDay(d) ==
    IsCalendarDay(DigitsValue(d.g3), MonthNumber(d.g2), DigitsValue(d.g1))

\* the trimmed line begins with a date-shaped token and whitespace
IsDatePrefixed(line) == LineMatch(StripStr(line)).ok
PrefixIsDate(line) == NamesCalendarDay(DateMatch(LineMatch(StripStr(line)).g1))
HasNumber(line) == LastNumberStart(Remainder(line), 1) > 0

\* C18: parse_transaction_line returns no transaction for every
\* date-prefixed line that has no numeric token after the date or whose
\* date-shaped prefix is no date ('31-Feb-25 X 1,00', or a prefix with an
\* unrecognized month abbreviation).
C18_UndatedOrAmountlessLineDiscarded ==
    line_result # NotCalled /\ IsDatePrefixed(line_text)
        /\ (~HasNumber(line_text) \/ ~PrefixIsDate(line_text))
    => line_result = NoTransaction

\* the lines the code does discard: the day that is not in the calendar
C18_InvalidDayDiscarded ==
    /\ line_text = "31-Feb-25 NETFLIX.COM 00779 1500,00"
    /\ line_result = NoTransaction

-----------------------------------------------------------------------------
(* The document handle, checked under SpecStatement.                       *)

\* C19: the document handle is open while parse_mastercard_pdf reads the
\* pages and scans the lines, and it is closed once the call is over, by a
\* return or by an exception raised while the pages are read.
C19_HandleReleased ==
    /\ pc \in {"pages", "lines"} => pdf_open
    /\ pc \in {"done", "raised", "rows", "committed", "error 500"} => ~pdf_open

\* the second page cannot be read: the exception leaves the call after the
\* first page was read, and the handle is closed
C19_Witness ==
    /\ pc = "raised"
    /\ page_num = 1
    /\ pdf_pages[2] = ExtractRaises
    /\ full_text # ""
    /\ ~pdf_open

-----------------------------------------------------------------------------
(* The rows of upload_statement, checked under SpecStatement.              *)

\* the places in db_transactions of the rows made for the i-th parsed
\* transaction and tagged with the id of the statement row
RowsFor(i) ==
    {n \in 1..Len(db_transactions) :
        db_transactions[n].parsed = i /\ db_transactions[n].statement_id = db_statement.id}

\* C20: once upload_statement has committed, there is exactly one Transaction
\* row, tagged with the id of the new statement, for every transaction of
\* the parsed statement, one whose amount is zero included.
C20_OneRowPerParsedTransaction ==
    pc = "committed" =>
        \A i \in 1..Len(result.transactions) : Cardinality(RowsFor(i)) = 1

\* the rows the code does add: one for each transaction with an amount
C20_OneRowPerNonZeroTransaction ==
    /\ pc = "committed"
    /\ Len(result.transactions) = 3
    /\ \A i \in 1..3 : Truthy(AmountOf(result.transactions[i])) /\ Cardinality(RowsFor(i)) = 1

-----------------------------------------------------------------------------
(* The row of the taxes, checked under SpecStatement.                      *)

ImpuestosMerchant == "Impuestos y Cargos del Resumen"

\* the rows of the committed upload that carry the merchant of the taxes
ImpuestosRowsOf(rows) == {n \in 1..Len(rows) : rows[n].merchant = ImpuestosMerchant}

\* the whole part of a float given by its bits
RECURSIVE WholePart(_)
WholePart(R) ==
    IF R = {} THEN 0
    ELSE IF SetMax(R) < 0 THEN 0
    ELSE 2^SetMax(R) + WholePart(R \ {SetMax(R)})

\* |v| > 100, read off the decimal where v is one, off the whole and the
\* fractional bits where it is not
Over100(v) ==
    IF v.k = "inf" THEN TRUE
    ELSE IF v.k = "nan" THEN FALSE
    ELSE IF v.k = "fin" /\ v.x >= 0 THEN AbsInt(v.m) * Pow10(v.x) > 100
    ELSE IF v.k = "fin" THEN AbsInt(v.m) > 100 * Pow10(0 - v.x)
    ELSE IF SetMax(v.bits) >= 7 THEN TRUE
    ELSE \/ WholePart(v.bits) > 100
         \/ WholePart(v.bits) = 100 /\ \E p \in v.bits : p < 0

\* C21: the committed upload holds the row 'Impuestos y Cargos del Resumen'
\* if and only if |impuestos_pesos| > 100 (none at exactly 100); there is at
\* most one, its amount is |impuestos_pesos| and it is a peso row; the
\* dollar residual plays no part.
C21_ImpuestosRowIffOver100 ==
    pc = "committed" =>
        /\ Cardinality(ImpuestosRowsOf(db_transactions)) =
               (IF Over100(result.impuestos_pesos) THEN 1 ELSE 0)
        /\ \A n \in ImpuestosRowsOf(db_transactions) :
               /\ db_transactions[n].amount = AbsValue(result.impuestos_pesos)
               /\ ~IsNegative(db_transactions[n].amount)
               /\ ~db_transactions[n].is_dollar
               /\ db_transactions[n].statement_id = db_statement.id

\* a negative residual over the threshold has its row, with the positive amount
C21_Witness ==
    /\ pc = "committed"
    /\ IsNegative(result.impuestos_pesos)
    /\ Over100(result.impuestos_pesos)
    /\ Cardinality(ImpuestosRowsOf(db_transactions)) = 1
    /\ Len(db_transactions) > 1

\* a residual of exactly 100 has no row
C21_ExactlyAtThreshold ==
    /\ pc = "committed"
    /\ result.impuestos_pesos = Normalize(100, 0)
    /\ ImpuestosRowsOf(db_transactions) = {}

\* a dollar residual over 100 beside a peso residual under 100 has no row
C21_DollarResidualOnly ==
    /\ pc = "committed"
    /\ Over100(result.impuestos_dolares)
    /\ ~Over100(result.impuestos_pesos)
    /\ ~IsZero(result.impuestos_pesos)
    /\ Len(db_transactions) = 2
    /\ ImpuestosRowsOf(db_transactions) = {}

\* a residual that is no decimal of two places, over the threshold
C21_BinaryResidual ==
    /\ pc = "committed"
    /\ result.impuestos_pesos.k = "bin"
    /\ Cardinality(ImpuestosRowsOf(db_transactions)) = 1

-----------------------------------------------------------------------------
(* Properties of the emitted transactions, checked under SpecParser: the   *)
(* Transaction of a call of parse_transaction_line and the list of         *)
(* parse_mastercard_pdf, each with the line it was read from.              *)

\* t, read from line, has the amount extracted from the line in the column
\* of its currency and 0.0 in the other column
InClassifiedColumn(t, line) ==
    /\ t.is_dollar =>
           t.amount_dollars = parse_amount(TrailingAmount(line)) /\ t.amount_pesos = Zero
    /\ ~t.is_dollar =>
           t.amount_pesos = parse_amount(TrailingAmount(line)) /\ t.amount_dollars = Zero

\* C22: every emitted transaction carries the extracted amount in the field
\* of its classified currency and exactly zero in the other field: is_dollar
\* implies amount_pesos = 0, and not is_dollar implies amount_dollars = 0.
C22_AmountInClassifiedColumn ==
    /\ IsTransaction(line_result) => InClassifiedColumn(line_result, line_text)
    /\ Len(tx_lines) = Len(transactions)
    /\ \A i \in 1..Len(transactions) : InClassifiedColumn(transactions[i], tx_lines[i])

\* a dollar and a peso transaction, both with non-zero amounts, in one list
C22_Witness ==
    /\ pc = "done"
    /\ Len(result.transactions) = 2
    /\ result.transactions[1].is_dollar
    /\ result.transactions[1].amount_dollars = Hundredths(41)
    /\ ~result.transactions[2].is_dollar
    /\ result.transactions[2].amount_pesos = Normalize(2000, 0)

\* s begins with one or two digits (n of them), '-', three letters, '-', two
\* digits and a whitespace character
DateTokenOfDays(s, n) ==
    /\ \A i \in 1..n : IsDigit(Ch(s, i))
    /\ Ch(s, n + 1) = "-"
    /\ \A i \in (n + 2)..(n + 4) : IsAlpha(Ch(s, i))
    /\ Ch(s, n + 5) = "-"
    /\ IsDigit(Ch(s, n + 6)) /\ IsDigit(Ch(s, n + 7))
    /\ IsSpace(Ch(s, n + 8))
BeginsWithDateToken(s) == DateTokenOfDays(s, 1) \/ DateTokenOfDays(s, 2)

\* C23: a line is emitted as a transaction only if, after trimming, it
\* begins with a date token of the shape DD-Mon-YY followed by whitespace;
\* every other line yields no transaction, from parse_transaction_line and
\* in the list of parse_mastercard_pdf.
C23_EmittedOnlyIfDatePrefixed ==
    /\ IsTransaction(line_result) => BeginsWithDateToken(StripStr(line_text))
    /\ line_result # NotCalled /\ ~BeginsWithDateToken(StripStr(line_text))
           => line_result = NoTransaction
    /\ \A i \in 1..Len(tx_lines) : BeginsWithDateToken(StripStr(tx_lines[i]))
    /\ pc = "done" => Len(result.transactions) = Len(tx_lines)

\* the line with the date in the middle is skipped
C23_Witness ==
    /\ line_text = "NETFLIX.COM 26-Nov-25 00779 1500,00"
    /\ line_result = NoTransaction

\* a document with lines that are no transactions beside one that is
C23_HeadersSkipped ==
    /\ pc = "done"
    /\ Contains(full_text, "SALDO ACTUAL")
    /\ Contains(full_text, "Pagina 1 de 2")
    /\ Len(result.transactions) = 1

\* the marker as written, and in any letter case, at position i of s
MarkerAt(s, i) == Sub(s, i, i + 3) = "USA,"
MarkerAnyCaseAt(s, i) ==
    /\ Ch(s, i) \in {"U", "u"}
    /\ Ch(s, i + 1) \in {"S", "s"}
    /\ Ch(s, i + 2) \in {"A", "a"}
    /\ Ch(s, i + 3) = ","
HasMarker(s) == \E i \in 1..Len(s) : MarkerAt(s, i)
HasMarkerAnyCase(s) == \E i \in 1..Len(s) : MarkerAnyCaseAt(s, i)

\* C24 as stated: an emitted transaction has is_dollar true if and only if
\* the remainder after the date contains the 4-character marker 'USA,'.
C24_DollarIffMarker ==
    /\ IsTransaction(line_result) =>
           (line_result.is_dollar <=> HasMarker(Remainder(line_text)))
    /\ \A i \in 1..Len(transactions) :
           transactions[i].is_dollar <=> HasMarker(Remainder(tx_lines[i]))

\* C24 amended: an emitted transaction has is_dollar true if and only if the
\* remainder after the date contains the marker 'USA,' in any letter case
\* ('usa,', 'Usa,' ...), whatever the amount, the coupon and the merchant.
C24_DollarIffMarkerAnyCase ==
    /\ IsTransaction(line_result) =>
           (line_result.is_dollar <=> HasMarkerAnyCase(Remainder(line_text)))
    /\ Len(tx_lines) = Len(transactions)
    /\ \A i \in 1..Len(transactions) :
           transactions[i].is_dollar <=> HasMarkerAnyCase(Remainder(tx_lines[i]))

C24_Witness ==
    /\ line_text = "26-Nov-25 Compra usa, 00779 2,50"
    /\ IsTransaction(line_result)
    /\ line_result.is_dollar
    /\ line_result.amount_dollars = Hundredths(250)

\* no whitespace at either end of s, no two whitespace characters in a row
\* and no whitespace character other than the space
WhitespaceNormalized(s) ==
    /\ ~IsSpace(Ch(s, 1)) /\ ~IsSpace(Ch(s, Len(s)))
    /\ \A i \in 1..Len(s) : IsSpace(Ch(s, i)) => Ch(s, i) = " " /\ ~IsSpace(Ch(s, i + 1))

\* s ends with a token of exactly five digits that whitespace separates
\* from the text before it
EndsWithCouponToken(s) ==
    /\ Len(s) >= 6
    /\ \A i \in (Len(s) - 4)..Len(s) : IsDigit(Ch(s, i))
    /\ IsSpace(Ch(s, Len(s) - 5))

Normalized(t) == WhitespaceNormalized(t.merchant) /\ ~EndsWithCouponToken(t.merchant)

\* C25: the merchant of every emitted transaction is whitespace-normalized
\* and does not end with a whitespace-separated 5-digit token, also when the
\* text before the amount ends with more than one 5-digit token.
C25_MerchantNormalized ==
    /\ IsTransaction(line_result) => Normalized(line_result)
    /\ \A i \in 1..Len(transactions) : Normalized(transactions[i])

\* the part that holds: the merchant is whitespace-normalized
C25_MerchantWhitespaceNormalized ==
    /\ IsTransaction(line_result) => WhitespaceNormalized(line_result.merchant)
    /\ \A i \in 1..Len(transactions) : WhitespaceNormalized(transactions[i].merchant)

\* one trailing 5-digit token is removed
C25_OneTokenRemoved ==
    /\ line_text = "26-Nov-25 NETFLIX.COM 00779 1500,00"
    /\ IsTransaction(line_result)
    /\ line_result.merchant = "NETFLIX.COM"

\* the last whitespace-separated token of s
LastToken(s) == From(s, MaxOrZero({i \in 1..Len(s) : IsSpace(Ch(s, i))}) + 1)

\* tok is a locale-formatted number: an optional minus sign, digits with
\* periods between them, one comma and digits after it; c is the place of
\* the comma and b the place of the first digit
LocaleNumberAt(tok, b, c) ==
    /\ c > b
    /\ c < Len(tok)
    /\ IsDigit(Ch(tok, b)) /\ IsDigit(Ch(tok, c - 1))
    /\ \A i \in b..(c - 1) : IsDigit(Ch(tok, i)) \/ (Ch(tok, i) = "." /\ IsDigit(Ch(tok, i + 1)))
    /\ \A i \in (c + 1)..Len(tok) : IsDigit(Ch(tok, i))
IsLocaleNumber(tok) ==
    \E c \in 1..Len(tok) :
        Ch(tok, c) = "," /\ LocaleNumberAt(tok, IF Ch(tok, 1) = "-" THEN 2 ELSE 1, c)

AmountIsOfToken(t, tok) == IsLocaleNumber(tok) => AmountOf(t) = parse_amount(tok)

\* C26: for a transaction line whose trailing token is a locale-formatted
\* number, the emitted amount is parse_amount of that whole token, tokens
\* with a period thousands separator included: a line ending in '1.234,56'
\* yields the amount 1234.56.
C26_AmountOfWholeToken ==
    /\ IsTransaction(line_result) =>
           /\ AmountIsOfToken(line_result, LastToken(Remainder(line_text)))
           /\ LastToken(Remainder(line_text)) = "1.234,56"
                  => AmountOf(line_result) = Hundredths(123456)
    /\ \A i \in 1..Len(transactions) :
           AmountIsOfToken(transactions[i], LastToken(Remainder(tx_lines[i])))

\* the part that holds: a trailing token without a period is the amount
C26_AmountOfPlainToken ==
    IsTransaction(line_result) /\ ~Contains(LastToken(Remainder(line_text)), ".")
        => AmountIsOfToken(line_result, LastToken(Remainder(line_text)))

C26_PlainTokenParsed ==
    /\ line_text = "26-Nov-25 NETFLIX  COM 12345 00779 -1500,00"
    /\ IsTransaction(line_result)
    /\ line_result.amount_pesos = Normalize(0 - 1500, 0)

-----------------------------------------------------------------------------
(* The temporary file of the upload, checked under SpecStatement.          *)

\* C30: the temporary file that upload_statement writes the uploaded PDF to
\* no longer exists when the handler finishes, when processing succeeds and
\* when it fails with an error response.
C30_TempFileRemoved == pc \in {"committed", "error 500"} => ~tmp_exists

\* the part that holds: the file is removed when the upload is committed
C30_RemovedOnSuccess ==
    /\ pc \in {"open", "pages", "lines", "done", "rows", "raised"} => tmp_exists
    /\ pc = "committed" => ~tmp_exists

C30_SuccessReached == pc = "committed" /\ Len(db_transactions) = 3 /\ ~tmp_exists

-----------------------------------------------------------------------------
(* Properties of the tables, checked under SpecApi.                        *)

\* the category of t is null or a category of the owner of t
CategoryOfOwner(t) ==
    \/ t.category_id = 0
    \/ \E c \in categories_table : c.id = t.category_id /\ c.user_id = t.user_id

\* C27: after any sequence of requests of any users, every transaction's
\* category_id is null or the id of a category owned by the user who owns
\* the transaction.
C27_CategoryOfSameUser == \A t \in transactions_table : CategoryOfOwner(t)

\* the part that holds: the category of a transaction is null or names a row
C27_CategoryExists ==
    \A t \in transactions_table : t.category_id \in {0} \cup CategoryIds(categories_table)

\* the rows of an upload have categories of the uploading user
C27_UploadedWithOwnCategory ==
    \E t \in transactions_table :
        t.statement_id # 0 /\ t.category_id # 0 /\ CategoryOfOwner(t)

\* C28: no request of one user changes or deletes a transaction owned by
\* another user: every transaction of a user other than the one of the
\* request is in the table after the request as it was before.
C28_OthersTransactionsUntouched ==
    [][\A t \in transactions_table : t.user_id # current_user' => t \in transactions_table']_vars

\* the requests other than delete_category leave them as they were
C28_UntouchedButByDeleteCategory ==
    [][categories_table' = categories_table =>
          \A t \in transactions_table :
              t.user_id # current_user' => t \in transactions_table']_vars

\* C29: after any sequence of uploads and deletions of transactions and of
\* statements, every statement's transaction_count is the number of stored
\* transactions whose statement_id is the id of the statement.
StoredCount(statement) ==
    Cardinality({t \in transactions_table : t.statement_id = statement.id})
C29_CountIsNumberOfRows ==
    \A s \in statements_table : s.transaction_count = StoredCount(s)

\* the part that holds: the count is never less than the number of rows,
\* and every row of a statement belongs to the owner of the statement
C29_CountAtLeastRows ==
    /\ \A s \in statements_table : s.transaction_count >= StoredCount(s)
    /\ \A t \in transactions_table :
           t.statement_id # 0 =>
               \E s \in statements_table : s.id = t.statement_id /\ s.user_id = t.user_id

C29_UploadCounted ==
    \E s \in statements_table : s.transaction_count = 1 /\ StoredCount(s) = 1

=============================================================================
